---- MODULE Spec2Model ----
(***************************************************************************)
(* A model of the Vantage chess engine core: the position (Board) with its *)
(* incremental Zobrist hash, make/undo with repetition history, the game   *)
(* status rules, and the control flow of the iterative-deepening search.   *)
(*                                                                         *)
(* Bitboards (u64) are modelled as sets of squares 0..63.  A Zobrist hash  *)
(* (u64) is modelled as the set of key identifiers XORed into it: XOR is   *)
(* symmetric difference, the random 64-bit keys being taken as linearly    *)
(* independent.  Option<T> is NONE (-1) for scalars, and <<>> against a    *)
(* non-empty tuple for compound values.                                    *)
(***************************************************************************)
EXTENDS Integers, Sequences, FiniteSets, TLC

\* ---------------------------------------------------------------- types

NONE == -1

White == 0
Black == 1

Pawn == 0
Knight == 1
Bishop == 2
Rook == 3
Queen == 4
King == 5

EMPTY_SQ == 255

CASTLE_WK == 1
CASTLE_WQ == 2
CASTLE_BK == 4
CASTLE_BQ == 8

QUIET_MOVE == 0
DOUBLE_PAWN_PUSH == 1
KINGSIDE_CASTLE == 2
QUEENSIDE_CASTLE == 3
CAPTURE == 4
EN_PASSANT == 5
PROMOTION == 8
PROMOTION_CAPTURE == 12

Squares == 0..63
Colors == {White, Black}
Pieces == {Pawn, Knight, Bishop, Rook, Queen, King}

opposite(c) == IF c = White THEN Black ELSE White

RankOf(s) == s \div 8
FileOf(s) == s % 8

Xor(a, b) == (a \ b) \cup (b \ a)

\* ---------------------------------------------------------------- moves

is_capture(mv) == mv.flags \in {CAPTURE, EN_PASSANT, PROMOTION_CAPTURE}
is_en_passant(mv) == mv.flags = EN_PASSANT
is_castling(mv) == mv.flags = KINGSIDE_CASTLE \/ mv.flags = QUEENSIDE_CASTLE
is_promotion(mv) == mv.flags \in {PROMOTION, PROMOTION_CAPTURE}

Move(from, to, piece, promotion, flags) ==
    [from |-> from, to |-> to, piece |-> piece, promotion |-> promotion, flags |-> flags]

\* ---------------------------------------------------------------- Zobrist keys

\* One key identifier per (color, piece, square), side, castling right, EP file.
PieceKey(c, p, s) == c * 384 + p * 64 + s
SideKey == 768
CastlingKey(i) == 769 + i
EpFileKey(f) == 773 + f

\* xor_castling_rights_delta: XOR the key of every right in old XOR new.
CastleIndex(bit) == CASE bit = CASTLE_WK -> 0 [] bit = CASTLE_WQ -> 1
                      [] bit = CASTLE_BK -> 2 [] bit = CASTLE_BQ -> 3

\* Faulty variant: a rights change that leaves the hash untouched.
castling_delta_forgotten(hash, old, new) == hash

xor_castling_rights_delta(hash, old, new) ==
    Xor(hash, {CastlingKey(CastleIndex(bit)) : bit \in Xor(old, new)})

\* ep_file_to_hash: Some(file) if the EP square contributes to the hash.
\* The source shifts the target bit and masks the RESULT with a file mask.
ShiftMasked(s, excludedFile) ==
    IF s \in Squares /\ FileOf(s) # excludedFile THEN {s} ELSE {}

FILE_A_IDX == 0
FILE_H_IDX == 7

ep_file_to_hash(b) ==
    IF b.en_passant = NONE THEN NONE
    ELSE LET s == b.en_passant
             r == RankOf(s)
         IN IF ~(r = 2 \/ r = 5) THEN NONE
            ELSE LET srcs == IF b.side_to_move = White
                             THEN ShiftMasked(s - 9, FILE_H_IDX) \cup ShiftMasked(s - 7, FILE_A_IDX)
                             ELSE ShiftMasked(s + 7, FILE_A_IDX) \cup ShiftMasked(s + 9, FILE_H_IDX)
                     has_capturing_pawn == (srcs \cap b.piece_bb[b.side_to_move][Pawn]) # {}
                 IN IF has_capturing_pawn THEN FileOf(s) ELSE NONE

EpKeys(b) == IF ep_file_to_hash(b) = NONE THEN {} ELSE {EpFileKey(ep_file_to_hash(b))}

\* ---------------------------------------------------------------- Board

compute_zobrist_full(b) ==
    LET pieces == {PieceKey(c, p, s) : <<c, p, s>> \in
                      {<<c, p, s>> \in Colors \X Pieces \X Squares : s \in b.piece_bb[c][p]}}
        side == IF b.side_to_move = Black THEN {SideKey} ELSE {}
        rights == {CastlingKey(CastleIndex(bit)) : bit \in b.castling_rights}
    IN Xor(Xor(Xor(pieces, side), rights), EpKeys(b))

refresh_zobrist(b) == [b EXCEPT !.zobrist = compute_zobrist_full(b)]

\* Board::set_bb: store the bitboard, fix occupancies, mailbox and hash.
set_bb(b, color, piece, new_bb) ==
    LET old_bb == b.piece_bb[color][piece]
        delta == Xor(old_bb, new_bb)
        occw == IF color = White THEN Xor(b.occ_white, delta) ELSE b.occ_white
        occb == IF color = White THEN b.occ_black ELSE Xor(b.occ_black, delta)
    IN IF delta = {} THEN b
       ELSE [b EXCEPT !.piece_bb[color][piece] = new_bb,
                      !.occ_white = occw,
                      !.occ_black = occb,
                      !.occ_all = occw \cup occb,
                      !.piece_on_sq = [s \in Squares |->
                                          IF s \in delta
                                          THEN (IF s \in new_bb THEN color * 8 + piece ELSE EMPTY_SQ)
                                          ELSE @[s]],
                      !.zobrist = Xor(@, {PieceKey(color, piece, s) : s \in delta})]

new_empty ==
    refresh_zobrist(
        [piece_bb |-> [c \in Colors |-> [p \in Pieces |-> {}]],
         occ_white |-> {}, occ_black |-> {}, occ_all |-> {},
         piece_on_sq |-> [s \in Squares |-> EMPTY_SQ],
         side_to_move |-> White,
         castling_rights |-> {},
         en_passant |-> NONE,
         halfmove_clock |-> 0,
         fullmove_number |-> 1,
         zobrist |-> {},
         history |-> <<>>])

remove_piece(b, color, piece, idx) == set_bb(b, color, piece, b.piece_bb[color][piece] \ {idx})
place_piece(b, color, piece, idx) == set_bb(b, color, piece, b.piece_bb[color][piece] \cup {idx})

repetition_count(b) ==
    Cardinality({i \in 1..Len(b.history) : b.history[i] = b.zobrist}) + 1

is_repetition(b) == \E i \in 1..Len(b.history) : b.history[i] = b.zobrist

is_threefold(b) == repetition_count(b) >= 3

has_major_pieces(b, color) ==
    (b.piece_bb[color][Knight] \cup b.piece_bb[color][Bishop]
       \cup b.piece_bb[color][Rook] \cup b.piece_bb[color][Queen]) # {}

\* ---------------------------------------------------------------- attacks

OnBoard(r, f) == r \in 0..7 /\ f \in 0..7

Offsets(s, deltas) ==
    {(RankOf(s) + d[1]) * 8 + (FileOf(s) + d[2]) :
        d \in {d \in deltas : OnBoard(RankOf(s) + d[1], FileOf(s) + d[2])}}

KNIGHT_ATTACKS ==
    [s \in Squares |-> Offsets(s, {<<1, 2>>, <<2, 1>>, <<2, -1>>, <<1, -2>>,
                                   <<-1, -2>>, <<-2, -1>>, <<-2, 1>>, <<-1, 2>>})]

KING_ATTACKS ==
    [s \in Squares |-> Offsets(s, {<<1, 0>>, <<1, 1>>, <<0, 1>>, <<-1, 1>>,
                                   <<-1, 0>>, <<-1, -1>>, <<0, -1>>, <<1, -1>>})]

WHITE_PAWN_ATTACKS == [s \in Squares |-> Offsets(s, {<<1, -1>>, <<1, 1>>})]

BLACK_PAWN_ATTACKS == [s \in Squares |-> Offsets(s, {<<-1, -1>>, <<-1, 1>>})]

pawn_attacks(sq, color) == IF color = White THEN WHITE_PAWN_ATTACKS[sq] ELSE BLACK_PAWN_ATTACKS[sq]

\* scan_ray: walk from (rank, file) by (dr, df), adding squares up to and
\* including the first blocker.
RECURSIVE scan_ray(_, _, _, _, _)
scan_ray(rank, file, dr, df, blockers) ==
    IF OnBoard(rank, file)
    THEN LET sq == rank * 8 + file
         IN IF sq \in blockers THEN {sq}
            ELSE {sq} \cup scan_ray(rank + dr, file + df, dr, df, blockers)
    ELSE {}

rook_attacks_per_square(square, blockers) ==
    LET rank == RankOf(square)
        file == FileOf(square)
    IN scan_ray(rank + 1, file, 1, 0, blockers) \cup scan_ray(rank - 1, file, -1, 0, blockers)
         \cup scan_ray(rank, file + 1, 0, 1, blockers) \cup scan_ray(rank, file - 1, 0, -1, blockers)

bishop_attacks_per_square(square, blockers) ==
    LET rank == RankOf(square)
        file == FileOf(square)
    IN scan_ray(rank + 1, file + 1, 1, 1, blockers) \cup scan_ray(rank - 1, file - 1, -1, -1, blockers)
         \cup scan_ray(rank + 1, file - 1, 1, -1, blockers) \cup scan_ray(rank - 1, file + 1, -1, 1, blockers)

queen_attacks(square, blockers) ==
    rook_attacks_per_square(square, blockers) \cup bishop_attacks_per_square(square, blockers)

is_square_attacked(b, square, attacker) ==
    LET pawn_attackers ==
            IF attacker = White
            THEN (IF FileOf(square) # 7 /\ square - 7 >= 0 THEN {square - 7} ELSE {})
                   \cup (IF FileOf(square) # 0 /\ square - 9 >= 0 THEN {square - 9} ELSE {})
            ELSE (IF FileOf(square) # 0 /\ square + 7 <= 63 THEN {square + 7} ELSE {})
                   \cup (IF FileOf(square) # 7 /\ square + 9 <= 63 THEN {square + 9} ELSE {})
        rook_attacks == rook_attacks_per_square(square, b.occ_all)
        bishop_attacks == bishop_attacks_per_square(square, b.occ_all)
    IN \/ pawn_attackers \cap b.piece_bb[attacker][Pawn] # {}
       \/ KNIGHT_ATTACKS[square] \cap b.piece_bb[attacker][Knight] # {}
       \/ KING_ATTACKS[square] \cap b.piece_bb[attacker][King] # {}
       \/ rook_attacks \cap b.piece_bb[attacker][Rook] # {}
       \/ bishop_attacks \cap b.piece_bb[attacker][Bishop] # {}
       \/ (rook_attacks \cup bishop_attacks) \cap b.piece_bb[attacker][Queen] # {}

king_square(b, color) == CHOOSE s \in b.piece_bb[color][King] : \A t \in b.piece_bb[color][King] : s <= t

in_check(b, side) == is_square_attacked(b, king_square(b, side), opposite(side))

is_legal_castling(b, mv) ==
    LET color == b.side_to_move
        path == CASE color = White /\ mv.to = 6 -> {4, 5, 6}
                  [] color = White /\ mv.to = 2 -> {4, 3, 2}
                  [] color = Black /\ mv.to = 62 -> {60, 61, 62}
                  [] color = Black /\ mv.to = 58 -> {60, 59, 58}
                  [] OTHER -> {}
    IN /\ ~in_check(b, color)
       /\ path # {}
       /\ \A t \in path : ~is_square_attacked(b, t, opposite(color))

\* ---------------------------------------------------------------- move generation

PROMOS == {Queen, Rook, Bishop, Knight}

kingside_between(color) == IF color = White THEN {5, 6} ELSE {61, 62}
queenside_between(color) == IF color = White THEN {1, 2, 3} ELSE {57, 58, 59}

has_kingside_castle(b, color) ==
    IF color = White THEN CASTLE_WK \in b.castling_rights ELSE CASTLE_BK \in b.castling_rights
has_queenside_castle(b, color) ==
    IF color = White THEN CASTLE_WQ \in b.castling_rights ELSE CASTLE_BQ \in b.castling_rights

occupancy(b, color) == IF color = White THEN b.occ_white ELSE b.occ_black

\* push_piece_moves: one move per target, flagged CAPTURE when on an enemy.
push_piece_moves(from, targets, enemy, move_piece) ==
    {Move(from, to, move_piece, NONE, IF to \in enemy THEN CAPTURE ELSE QUIET_MOVE) : to \in targets}

\* Knights, bishops, rooks, queens: attacks minus friendly minus enemy king.
generate_piece_moves(b, piece) ==
    LET color == b.side_to_move
        friendly == occupancy(b, color)
        enemy_king == b.piece_bb[opposite(color)][King]
        enemy_without_king == occupancy(b, opposite(color)) \ enemy_king
        attacks(from) == CASE piece = Knight -> KNIGHT_ATTACKS[from]
                           [] piece = Bishop -> bishop_attacks_per_square(from, b.occ_all)
                           [] piece = Rook -> rook_attacks_per_square(from, b.occ_all)
                           [] piece = Queen -> queen_attacks(from, b.occ_all)
    IN UNION {push_piece_moves(from, (attacks(from) \ friendly) \ enemy_king,
                               enemy_without_king, piece) : from \in b.piece_bb[color][piece]}

generate_king_moves(b) ==
    LET color == b.side_to_move
        king_bb == b.piece_bb[color][King]
    IN IF king_bb = {} THEN {}
       ELSE LET from == king_square(b, color)
                friendly == occupancy(b, color)
                enemy_king == b.piece_bb[opposite(color)][King]
                enemy == occupancy(b, opposite(color))
                targets == (KING_ATTACKS[from] \ friendly) \ enemy_king
                ks == Move(from, from + 2, King, NONE, KINGSIDE_CASTLE)
                qs == Move(from, from - 2, King, NONE, QUEENSIDE_CASTLE)
            IN push_piece_moves(from, targets, enemy, King)
                 \cup (IF has_kingside_castle(b, color)
                          /\ b.occ_all \cap kingside_between(color) = {}
                          /\ is_legal_castling(b, ks)
                       THEN {ks} ELSE {})
                 \cup (IF has_queenside_castle(b, color)
                          /\ b.occ_all \cap queenside_between(color) = {}
                       THEN {qs} ELSE {})

generate_pawn_moves(b) ==
    LET color == b.side_to_move
        pawns == b.piece_bb[color][Pawn]
        enemy_without_king == occupancy(b, opposite(color)) \ b.piece_bb[opposite(color)][King]
        empty == Squares \ b.occ_all
        up == IF color = White THEN 8 ELSE -8
        start_rank == IF color = White THEN 6 ELSE 1
        promo_rank == IF color = White THEN 7 ELSE 0
        home_rank == IF color = White THEN 1 ELSE 6
        single_pushes == {Move(s, s + up, Pawn, NONE, QUIET_MOVE) :
                             s \in {s \in pawns : s + up \in empty /\ RankOf(s + up) # promo_rank}}
        double_pushes == {Move(s, s + 2 * up, Pawn, NONE, DOUBLE_PAWN_PUSH) :
                             s \in {s \in pawns : RankOf(s) = home_rank /\ s + up \in empty
                                                    /\ s + 2 * up \in empty}}
        captures == UNION {{Move(from, to, Pawn, NONE, CAPTURE) :
                               to \in {t \in pawn_attacks(from, color) \cap enemy_without_king :
                                          RankOf(t) # promo_rank}} : from \in pawns}
        promo_pushes == UNION {{Move(s, s + up, Pawn, promo, PROMOTION) : promo \in PROMOS} :
                                  s \in {s \in pawns : RankOf(s) = start_rank /\ s + up \in empty}}
        promo_captures == UNION {UNION {{Move(from, to, Pawn, promo, PROMOTION_CAPTURE) : promo \in PROMOS} :
                                           to \in {t \in pawn_attacks(from, color) \cap enemy_without_king :
                                                      RankOf(t) = promo_rank}} :
                                    from \in {s \in pawns : RankOf(s) = start_rank}}
        en_passant == IF b.en_passant # NONE /\ b.en_passant \in empty
                         /\ (b.en_passant - up) \in b.piece_bb[opposite(color)][Pawn]
                      THEN {Move(from, b.en_passant, Pawn, NONE, EN_PASSANT) :
                               from \in {s \in pawns : b.en_passant \in pawn_attacks(s, color)}}
                      ELSE {}
    IN single_pushes \cup double_pushes \cup captures \cup promo_pushes \cup promo_captures
         \cup en_passant

generate_pseudo_legal(b) ==
    generate_pawn_moves(b) \cup generate_piece_moves(b, Knight) \cup generate_piece_moves(b, Bishop)
      \cup generate_piece_moves(b, Rook) \cup generate_piece_moves(b, Queen) \cup generate_king_moves(b)

\* ---------------------------------------------------------------- make / undo

rook_castle_squares(king_to_idx) ==
    CASE king_to_idx = 6 -> <<7, 5>>
      [] king_to_idx = 2 -> <<0, 3>>
      [] king_to_idx = 62 -> <<63, 61>>
      [] king_to_idx = 58 -> <<56, 59>>
      [] OTHER -> <<>>

rights_mask_to_clear_for_rook(color, rook_sq) ==
    CASE color = White /\ rook_sq = 0 -> {CASTLE_WQ}
      [] color = White /\ rook_sq = 7 -> {CASTLE_WK}
      [] color = Black /\ rook_sq = 56 -> {CASTLE_BQ}
      [] color = Black /\ rook_sq = 63 -> {CASTLE_BK}
      [] OTHER -> {}

\* The capture resolved by make_move_basic: <<color, piece, square>> or <<>>.
resolve_capture(b, mv) ==
    IF is_en_passant(mv)
    THEN <<opposite(b.side_to_move), Pawn,
           IF b.side_to_move = White THEN mv.to - 8 ELSE mv.to + 8>>
    ELSE LET occupant == b.piece_on_sq[mv.to]
         IN IF occupant # EMPTY_SQ THEN <<occupant \div 8, occupant % 8, mv.to>> ELSE <<>>

\* The castling rights this move clears (king move, rook leaving its corner,
\* rook captured on its corner).
mask_to_clear(color, mv, capture) ==
    (IF mv.piece = King
     THEN (IF color = White THEN {CASTLE_WK, CASTLE_WQ} ELSE {CASTLE_BK, CASTLE_BQ})
     ELSE {})
      \cup (IF mv.piece = Rook THEN rights_mask_to_clear_for_rook(color, mv.from) ELSE {})
      \cup (IF capture # <<>> /\ capture[2] = Rook
            THEN rights_mask_to_clear_for_rook(capture[1], capture[3]) ELSE {})

\* Faulty variant: the mask is computed but never applied.
castling_rights_kept(old_rights, mask) == old_rights

new_castling_rights(old_rights, mask) == old_rights \ mask

\* The new en-passant square after a move: set on a pawn double push only.
en_passant_after(color, mv) ==
    IF mv.piece = Pawn
       /\ \/ (color = White /\ RankOf(mv.from) = 1 /\ RankOf(mv.to) = 3)
          \/ (color = Black /\ RankOf(mv.from) = 6 /\ RankOf(mv.to) = 4)
    THEN (IF color = White THEN mv.from + 8 ELSE mv.from - 8)
    ELSE NONE

halfmove_after(prev_halfmove_clock, capture, piece) ==
    IF capture # <<>> \/ piece = Pawn THEN 0 ELSE prev_halfmove_clock + 1

is_irreversible(capture, mv) == capture # <<>> \/ mv.piece = Pawn \/ mv.promotion # NONE

\* Faulty variant: the history is never truncated.
history_always_appended(history, irreversible, start_zobrist) == Append(history, start_zobrist)

\* History after the move: cleared when irreversible; the pre-move key pushed.
history_after_make(history, irreversible, start_zobrist) ==
    Append(IF irreversible THEN <<>> ELSE history, start_zobrist)

\* Lines 56-61: the en-passant key leaves the hash, the square is cleared.
clear_en_passant(b) == [b EXCEPT !.zobrist = Xor(@, EpKeys(b)), !.en_passant = NONE]

\* Lines 79 and 86: the captured piece leaves the board.
remove_captured(b, capture) ==
    IF capture # <<>> THEN remove_piece(b, capture[1], capture[2], capture[3]) ELSE b

\* Lines 117-142: a double push sets the en-passant square.
set_en_passant(b, mv) == [b EXCEPT !.en_passant = en_passant_after(b.side_to_move, mv)]

\* Lines 167-172: the rights change is applied once, the hash follows by delta.
apply_castling_rights(b, new_rights) ==
    IF new_rights # b.castling_rights
    THEN [b EXCEPT !.castling_rights = new_rights,
                   !.zobrist = xor_castling_rights_delta(@, b.castling_rights, new_rights)]
    ELSE b

\* Lines 174-184: the moving piece (or the piece it promotes to) changes square.
move_piece(b, mv) ==
    place_piece(remove_piece(b, b.side_to_move, mv.piece, mv.from), b.side_to_move,
                IF mv.promotion # NONE THEN mv.promotion ELSE mv.piece, mv.to)

\* Lines 186-192: the rook of a castling move.
move_castling_rook(b, castling_rook) ==
    IF castling_rook # <<>>
    THEN place_piece(remove_piece(b, b.side_to_move, Rook, castling_rook[1]),
                     b.side_to_move, Rook, castling_rook[2])
    ELSE b

\* Lines 194-205: clocks, side to move and its key.
advance_clocks(b, capture, piece) ==
    [b EXCEPT !.halfmove_clock = halfmove_after(@, capture, piece),
              !.fullmove_number = IF b.side_to_move = Black THEN @ + 1 ELSE @,
              !.side_to_move = opposite(b.side_to_move),
              !.zobrist = Xor(@, {SideKey})]

\* Lines 207-209: the new en-passant key enters the hash.
hash_en_passant(b) == [b EXCEPT !.zobrist = Xor(@, EpKeys(b))]

\* Lines 214-233: the history is pushed, the snapshot goes into the Undo.
push_history(b, undo, irreversible, start_zobrist) ==
    [board |-> [b EXCEPT !.history = history_after_make(@, irreversible, start_zobrist)],
     undo |-> [undo EXCEPT !.prev_history = IF irreversible THEN <<b.history>> ELSE <<>>]]

make_move_basic(b, mv) ==
    LET color == b.side_to_move
        capture == resolve_capture(b, mv)
        castling_rook == IF is_castling(mv) THEN rook_castle_squares(mv.to) ELSE <<>>
        new_rights == new_castling_rights(b.castling_rights, mask_to_clear(color, mv, capture))
        undo == [from |-> mv.from, to |-> mv.to, piece |-> mv.piece, color |-> color,
                 prev_side |-> color, capture |-> capture, castling_rook |-> castling_rook,
                 prev_castling_rights |-> b.castling_rights,
                 promotion |-> mv.promotion,
                 prev_en_passant |-> b.en_passant,
                 prev_halfmove_clock |-> b.halfmove_clock,
                 prev_fullmove_number |-> b.fullmove_number,
                 prev_history |-> <<>>]
    IN push_history(
           hash_en_passant(
               advance_clocks(
                   move_castling_rook(
                       move_piece(
                           apply_castling_rights(
                               set_en_passant(remove_captured(clear_en_passant(b), capture), mv),
                               new_rights),
                           mv),
                       castling_rook),
                   capture, mv.piece)),
           undo, is_irreversible(capture, mv), b.zobrist)

\* Faulty variant: the snapshot is ignored, the pushed key is popped only.
history_popped_only(history, prev_history) ==
    IF history = <<>> THEN <<>> ELSE SubSeq(history, 1, Len(history) - 1)

\* History after undo: pop the pushed key, then restore the snapshot if any.
history_after_undo(history, prev_history) ==
    IF prev_history # <<>> THEN prev_history[1]
    ELSE IF history = <<>> THEN <<>> ELSE SubSeq(history, 1, Len(history) - 1)

undo_move_basic(b, undo) ==
    LET b1 == [b EXCEPT !.zobrist = Xor(Xor(@, EpKeys(b)), {SideKey}),
                        !.side_to_move = undo.prev_side]
        cur == b1.castling_rights
        prev == undo.prev_castling_rights
        b2 == [b1 EXCEPT !.zobrist = IF cur # prev THEN xor_castling_rights_delta(@, cur, prev) ELSE @,
                         !.castling_rights = prev,
                         !.halfmove_clock = undo.prev_halfmove_clock,
                         !.fullmove_number = undo.prev_fullmove_number]
        b3 == IF undo.promotion # NONE
              THEN place_piece(remove_piece(b2, undo.color, undo.promotion, undo.to), undo.color, Pawn, undo.from)
              ELSE place_piece(remove_piece(b2, undo.color, undo.piece, undo.to), undo.color, undo.piece, undo.from)
        b4 == IF undo.capture # <<>>
              THEN place_piece(b3, undo.capture[1], undo.capture[2], undo.capture[3])
              ELSE b3
        b5 == IF undo.castling_rook # <<>>
              THEN place_piece(remove_piece(b4, undo.color, Rook, undo.castling_rook[2]),
                               undo.color, Rook, undo.castling_rook[1])
              ELSE b4
        b6 == [b5 EXCEPT !.en_passant = undo.prev_en_passant]
        b7 == [b6 EXCEPT !.zobrist = Xor(@, EpKeys(b6))]
    IN [b7 EXCEPT !.history = history_after_undo(@, undo.prev_history)]

\* make_null_move: the current key is pushed, the en-passant key and square
\* go, the side flips; the NullMoveUndo keeps what undo_null_move restores.
make_null_move(b) ==
    [board |-> [clear_en_passant(b) EXCEPT !.side_to_move = opposite(b.side_to_move),
                                           !.zobrist = Xor(@, {SideKey}),
                                           !.history = Append(@, b.zobrist)],
     undo |-> [prev_en_passant |-> b.en_passant,
               prev_halfmove_clock |-> b.halfmove_clock,
               prev_side |-> b.side_to_move]]

\* Faulty variant: the pushed key stays on the history.
null_history_kept(history) == history

\* `board.history.pop()` of undo_null_move.
null_history_popped(history) ==
    IF history = <<>> THEN <<>> ELSE SubSeq(history, 1, Len(history) - 1)

undo_null_move(b, undo) ==
    [hash_en_passant([b EXCEPT !.side_to_move = undo.prev_side,
                               !.zobrist = Xor(@, {SideKey}),
                               !.en_passant = undo.prev_en_passant])
       EXCEPT !.halfmove_clock = undo.prev_halfmove_clock,
              !.history = null_history_popped(@)]

\* generate_legal: the pseudo-legal moves that pass the castling test and do
\* not leave the mover in check.
is_legal(b, mv) ==
    /\ is_castling(mv) => is_legal_castling(b, mv)
    /\ ~in_check(make_move_basic(b, mv).board, b.side_to_move)

generate_legal(b) == {mv \in generate_pseudo_legal(b) : is_legal(b, mv)}

\* ---------------------------------------------------------------- game status

InPlay == "InPlay"
DrawFivefold == "DrawFivefold"
DrawSeventyFiveMove == "DrawSeventyFiveMove"
DrawThreefold == "DrawThreefold"
DrawFiftyMove == "DrawFiftyMove"
DrawDeadPosition == "DrawDeadPosition"
Stalemate == "Stalemate"
Checkmate == "Checkmate"

is_insufficient_material(b) ==
    LET heavy == UNION {b.piece_bb[c][p] : c \in Colors, p \in {Pawn, Rook, Queen}}
        wb == Cardinality(b.piece_bb[White][Bishop])
        wn == Cardinality(b.piece_bb[White][Knight])
        bb == Cardinality(b.piece_bb[Black][Bishop])
        bn == Cardinality(b.piece_bb[Black][Knight])
        w_minors == wb + wn
        b_minors == bb + bn
        total_minors == w_minors + b_minors
    IN IF heavy # {} THEN FALSE
       ELSE IF total_minors = 0 THEN TRUE
       ELSE IF total_minors = 1 THEN TRUE
       ELSE IF total_minors = 2
            THEN (IF wn = 2 \/ bn = 2 THEN TRUE
                  ELSE IF w_minors = 1 /\ b_minors = 1 THEN TRUE
                  ELSE FALSE)
       ELSE FALSE

\* Faulty variant: threefold repetition tested ahead of the other draws.
position_status_threefold_first(b) ==
    LET hmc == b.halfmove_clock
    IN IF is_threefold(b) THEN DrawThreefold
       ELSE IF repetition_count(b) >= 5 THEN DrawFivefold
       ELSE IF hmc >= 150 THEN DrawSeventyFiveMove
       ELSE IF is_insufficient_material(b) THEN DrawDeadPosition
       ELSE IF hmc >= 100 THEN DrawFiftyMove
       ELSE IF generate_legal(b) = {}
            THEN (IF in_check(b, b.side_to_move) THEN Checkmate ELSE Stalemate)
       ELSE InPlay

position_status(b) ==
    LET hmc == b.halfmove_clock
    IN IF repetition_count(b) >= 5 THEN DrawFivefold
       ELSE IF hmc >= 150 THEN DrawSeventyFiveMove
       ELSE IF is_insufficient_material(b) THEN DrawDeadPosition
       ELSE IF is_threefold(b) THEN DrawThreefold
       ELSE IF hmc >= 100 THEN DrawFiftyMove
       ELSE IF generate_legal(b) = {}
            THEN (IF in_check(b, b.side_to_move) THEN Checkmate ELSE Stalemate)
       ELSE InPlay

\* ---------------------------------------------------------------- constructors

\* Board::new(): the starting position, all castling rights, empty history.
BoardNew ==
    LET b1 == set_bb(new_empty, White, Pawn, 8..15)
        b2 == set_bb(b1, White, Bishop, {2, 5})
        b3 == set_bb(b2, White, Knight, {1, 6})
        b4 == set_bb(b3, White, Rook, {0, 7})
        b5 == set_bb(b4, White, Queen, {3})
        b6 == set_bb(b5, White, King, {4})
        b7 == set_bb(b6, Black, Pawn, 48..55)
        b8 == set_bb(b7, Black, Bishop, {58, 61})
        b9 == set_bb(b8, Black, Knight, {57, 62})
        b10 == set_bb(b9, Black, Rook, {56, 63})
        b11 == set_bb(b10, Black, Queen, {59})
        b12 == set_bb(b11, Black, King, {60})
    IN [refresh_zobrist([b12 EXCEPT !.side_to_move = White,
                                    !.castling_rights = {CASTLE_WK, CASTLE_WQ, CASTLE_BK, CASTLE_BQ},
                                    !.en_passant = NONE,
                                    !.halfmove_clock = 0,
                                    !.fullmove_number = 1])
          EXCEPT !.history = <<>>]

\* Board::set_fen: fill the position from the six FEN fields, refresh the
\* hash; the repetition history starts empty.
RECURSIVE place_all(_, _)
place_all(b, placed) ==
    IF placed = {} THEN b
    ELSE LET t == CHOOSE t \in placed : TRUE
         IN place_all(place_piece(b, t[1], t[2], t[3]), placed \ {t})

set_fen(placed, side, rights, ep, hmc, fmn) ==
    [refresh_zobrist([place_all(new_empty, placed)
                         EXCEPT !.side_to_move = side,
                                !.castling_rights = rights,
                                !.en_passant = ep,
                                !.halfmove_clock = hmc,
                                !.fullmove_number = fmn])
       EXCEPT !.history = <<>>]

\* ---------------------------------------------------------------- positions explored

MaxPly == 2
MaxPlyBranch == 6
MaxPlyScript == 16

Scenarios == 1..8

\* 4k2r/7p/8/8/8/8/7P/4K2R w Kk - 0 1
FenCastleKingside ==
    set_fen({<<White, King, 4>>, <<White, Rook, 7>>, <<White, Pawn, 15>>,
             <<Black, King, 60>>, <<Black, Rook, 63>>, <<Black, Pawn, 55>>},
            White, {CASTLE_WK, CASTLE_BK}, NONE, 0, 1)

\* r3k3/8/8/8/8/8/8/R3K3 w Qq - 0 1
FenCastleQueenside ==
    set_fen({<<White, King, 4>>, <<White, Rook, 0>>, <<Black, King, 60>>, <<Black, Rook, 56>>},
            White, {CASTLE_WQ, CASTLE_BQ}, NONE, 0, 1)

\* 1n2k3/P2p4/8/4P3/8/8/8/4K3 b - - 0 1
FenPawns ==
    set_fen({<<White, King, 4>>, <<White, Pawn, 36>>, <<White, Pawn, 48>>,
             <<Black, King, 60>>, <<Black, Knight, 57>>, <<Black, Pawn, 51>>},
            Black, {}, NONE, 0, 1)

\* 7k/8/4Q1K1/8/8/8/8/8 w - - 0 1
FenQueenEnding ==
    set_fen({<<White, King, 46>>, <<White, Queen, 44>>, <<Black, King, 63>>},
            White, {}, NONE, 0, 1)

\* rnbqkbnr/1ppppppp/8/8/p7/8/PPPPPPPP/RNBQKBNR w KQkq - 0 3
FenPawnOnA4 ==
    LET b1 == set_bb(BoardNew, Black, Pawn, (48..55 \ {48}) \cup {24})
    IN [refresh_zobrist([b1 EXCEPT !.fullmove_number = 3]) EXCEPT !.history = <<>>]

\* 6k1/8/8/8/8/8/8/6K1 w - - 146 73
FenBareKings ==
    set_fen({<<White, King, 6>>, <<Black, King, 62>>}, White, {}, NONE, 146, 73)

\* r5k1/8/8/8/8/8/8/R5K1 w - - 96 60
FenRooks ==
    set_fen({<<White, King, 6>>, <<White, Rook, 0>>, <<Black, King, 62>>, <<Black, Rook, 56>>},
            White, {}, NONE, 96, 60)

\* 4k3/8/8/3pP3/4N3/8/8/4K3 w - d6 0 2
FenEnPassant ==
    set_fen({<<White, King, 4>>, <<White, Pawn, 36>>, <<White, Knight, 28>>,
             <<Black, King, 60>>, <<Black, Pawn, 35>>},
            White, {}, 43, 0, 2)

\* 4k3/P7/8/4p1p1/3p4/5N2/8/4K2R w K - 0 1
FenTactics ==
    set_fen({<<White, King, 4>>, <<White, Rook, 7>>, <<White, Knight, 21>>, <<White, Pawn, 48>>,
             <<Black, King, 60>>, <<Black, Pawn, 27>>, <<Black, Pawn, 36>>, <<Black, Pawn, 38>>},
            White, {CASTLE_WK}, NONE, 0, 1)

ScenarioBoard(n) ==
    CASE n = 1 -> FenCastleKingside
      [] n = 2 -> FenCastleQueenside
      [] n = 3 -> FenPawns
      [] n = 4 -> FenQueenEnding
      [] n = 5 -> FenPawnOnA4
      [] n = 6 -> FenBareKings
      [] n = 7 -> FenRooks
      [] n = 8 -> FenCastleKingside
      [] n = 9 -> FenEnPassant
      [] n = 10 -> FenTactics

KingShuffle == {<<6, 13>>, <<13, 6>>, <<62, 53>>, <<53, 62>>}

\* The moves (from, to) a scenario plays; {} stands for every legal move.
Script(n) ==
    CASE n = 5 -> {<<6, 21>>, <<21, 6>>, <<9, 25>>, <<62, 45>>, <<45, 62>>, <<24, 17>>}
      [] n = 6 -> KingShuffle
      [] n = 7 -> KingShuffle \cup {<<0, 56>>}
      [] n = 8 -> {<<7, 6>>, <<6, 7>>, <<63, 62>>, <<62, 63>>, <<4, 6>>, <<60, 62>>, <<4, 5>>, <<5, 4>>}
      [] OTHER -> {}

PlyLimit(n) ==
    CASE n \in {6, 7} -> MaxPlyScript
      [] n \in {5, 8} -> MaxPlyBranch
      [] OTHER -> MaxPly

Playable(n, b) ==
    {mv \in generate_legal(b) : Script(n) = {} \/ <<mv.from, mv.to>> \in Script(n)}

\* ---------------------------------------------------------------- position identity

\* The position in the sense of the repetition rule: placement, side to move,
\* castling rights, and the en-passant right when a pawn can capture there.
EpRight(b) ==
    IF \E mv \in generate_pawn_moves(b) : is_en_passant(mv) THEN b.en_passant ELSE NONE

PosId(b) == <<b.piece_on_sq, b.side_to_move, b.castling_rights, EpRight(b)>>

\* A capture, a pawn move or a promotion, read off the position before the move.
ResetsHistory(pre, mv) ==
    \/ pre.piece_on_sq[mv.to] # EMPTY_SQ
    \/ is_en_passant(mv)
    \/ pre.piece_on_sq[mv.from] % 8 = Pawn
    \/ mv.promotion # NONE

\* ---------------------------------------------------------------- the board machine

\* The board machine: scen, board, trail, last, window.
\* The search machine: srch, stack, ret, nodes, time, tt, ctx, watch.
\* A move picker run on its own: picker, picked (the moves it has returned).
VARIABLES scen, board, trail, last, window, srch, stack, ret, nodes, time, tt, ctx, watch,
          picker, picked

board_vars == <<scen, board, trail, last, window>>
search_vars == <<srch, stack, ret, nodes, time, tt, ctx, watch>>
picker_vars == <<picker, picked>>
vars == <<scen, board, trail, last, window, srch, stack, ret, nodes, time, tt, ctx, watch,
          picker, picked>>

\* No search is running.
SearchIdle ==
    /\ srch = [phase |-> "idle"]
    /\ stack = <<>>
    /\ ret = <<>>
    /\ nodes = 0
    /\ time = [allotted |-> FALSE, stop_signal |-> FALSE]
    /\ tt = <<>>
    /\ ctx = <<>>
    /\ watch = <<>>

\* No picker is run on its own.
PickerIdle ==
    /\ picker = <<>>
    /\ picked = <<>>

Init ==
    /\ SearchIdle
    /\ PickerIdle
    /\ scen \in Scenarios
    /\ board = ScenarioBoard(scen)
    /\ trail = <<>>
    /\ last = [op |-> "init", mv |-> Move(0, 0, Pawn, NONE, QUIET_MOVE)]
    /\ window = <<PosId(board)>>

\* board.make_move_basic(mv) for a legal move; the Undo goes on the trail.
Made(mv, r) ==
    /\ board' = r.board
    /\ trail' = Append(trail, [undo |-> r.undo, mv |-> mv, pre |-> board, window |-> window])
    /\ last' = [op |-> "make", mv |-> mv]
    /\ window' = Append(IF ResetsHistory(board, mv) THEN <<>> ELSE window, PosId(r.board))

MakeMove ==
    /\ Len(trail) < PlyLimit(scen)
    /\ \E mv \in Playable(scen, board) : Made(mv, make_move_basic(board, mv))
    /\ UNCHANGED <<scen, search_vars, picker_vars>>

\* An Undo (of a move) as against a NullMoveUndo.
IsUndo(undo) == "from" \in DOMAIN undo

\* board.undo_move_basic(undo) for the newest Undo on the trail.
UndoMove ==
    /\ trail # <<>>
    /\ IsUndo(trail[Len(trail)].undo)
    /\ LET top == trail[Len(trail)]
       IN /\ board' = undo_move_basic(board, top.undo)
          /\ window' = top.window
          /\ last' = [op |-> "undo", mv |-> top.mv]
    /\ trail' = SubSeq(trail, 1, Len(trail) - 1)
    /\ UNCHANGED <<scen, search_vars, picker_vars>>

Next == MakeMove \/ UndoMove

Spec == Init /\ [][Next]_vars

\* ---------------------------------------------------------------- null moves on the board

\* The board machine with null moves: make_null_move where the side to move
\* is not in check, undo_null_move for the newest NullMoveUndo; moves are
\* made and undone above a null move as the search does.  The scenarios are
\* those explored to MaxPly.
NullScenarios == {1, 2, 3, 4, 9}

InitNull ==
    /\ SearchIdle
    /\ PickerIdle
    /\ scen \in NullScenarios
    /\ board = ScenarioBoard(scen)
    /\ trail = <<>>
    /\ last = [op |-> "init", mv |-> Move(0, 0, Pawn, NONE, QUIET_MOVE)]
    /\ window = <<PosId(board)>>

NullMade(r) ==
    /\ board' = r.board
    /\ trail' = Append(trail, [undo |-> r.undo, mv |-> last.mv, pre |-> board, window |-> window])
    /\ last' = [op |-> "null", mv |-> Move(0, 0, Pawn, NONE, QUIET_MOVE)]
    /\ window' = Append(window, PosId(r.board))

MakeNullMove ==
    /\ Len(trail) < PlyLimit(scen)
    /\ ~in_check(board, board.side_to_move)
    /\ NullMade(make_null_move(board))
    /\ UNCHANGED <<scen, search_vars, picker_vars>>

\* last.mv keeps the move undone last above the null move, if there was one.
UndoNullMove ==
    /\ trail # <<>>
    /\ ~IsUndo(trail[Len(trail)].undo)
    /\ board' = undo_null_move(board, trail[Len(trail)].undo)
    /\ window' = trail[Len(trail)].window
    /\ last' = [op |-> "undo_null", mv |-> last.mv]
    /\ trail' = SubSeq(trail, 1, Len(trail) - 1)
    /\ UNCHANGED <<scen, search_vars, picker_vars>>

NextNull == MakeMove \/ UndoMove \/ MakeNullMove \/ UndoNullMove

SpecNull == InitNull /\ [][NextNull]_vars

\* ---------------------------------------------------------------- search constants

INF == 32000
MATE_SCORE == 31000
MATE_THRESHOLD == MATE_SCORE - 1000
MAX_Q_SEARCH_DEPTH == 100
DRAW_SCORE == -50

RFP_DEPTH_LIMIT == 9
RFP_MARGIN_BASE == 80
RFP_MARGIN_MULT == 90
FP_DEPTH_LIMIT == 7
FP_MARGIN_BASE == 100
FP_MARGIN_MULT == 100
FP_HISTORY_THRESHOLD == 512
LMP_DEPTH_LIMIT == 14
LMP_BASE_MOVES == 3
LMP_MOVE_MULTIPLIER == 6
LMR_MIN_DEPTH == 2
LMR_MIN_MOVES == 4

ASPIRATION_WINDOW == 50
KILLER_PLIES == 64

Exact == 0
LowerBound == 1
UpperBound == 2

Min(a, b) == IF a < b THEN a ELSE b
Max(a, b) == IF a > b THEN a ELSE b

score_to_tt(score, ply) ==
    IF score >= MATE_THRESHOLD THEN score + ply
    ELSE IF score <= -MATE_THRESHOLD THEN score - ply
    ELSE score

score_from_tt_raw(score, ply) == score

score_from_tt(score, ply) ==
    IF score >= MATE_THRESHOLD THEN score - ply
    ELSE IF score <= -MATE_THRESHOLD THEN score + ply
    ELSE score

\* `depth as u8`
depth_u8(depth) == depth % 256

\* `*nodes & 63 == 0`
check_due(n) == n % 64 = 0

\* ---------------------------------------------------------------- the game tree searched

\* The search is run on an abstract game tree.  A position is the path of
\* move identifiers leading to it from the root (0 is the null move); what the
\* engine reads off a position (its legal moves, static evaluation, check,
\* repetition, SEE) is a fixed function of the tree chosen at the start.
MaxTree == 5
MaxDepth == 5
MaxCaptures == 4
TTCapacity == 16

NULL_MOVE == 0
MoveIds == 1..7
CaptureIds == {1, 2}
PromotionId == 3

move_is_capture(m) == m \in CaptureIds
move_is_promotion(m) == m = PromotionId
\* piece.value() of the piece standing on mv.to
captured_value(m) == CASE m = 1 -> 100 [] m = 2 -> 500 [] OTHER -> 0

RECURSIVE Mix(_, _)
Mix(tree, pos) ==
    IF pos = <<>> THEN (tree * 131 + 17) % 9973
    ELSE (Mix(tree, SubSeq(pos, 1, Len(pos) - 1)) * 37 + pos[Len(pos)] * 11 + 5) % 9973

Attr(tree, pos, k) == ((Mix(tree, pos) + 1) * (12 * k + 7)) % 1009

TacticalCount(pos) == Cardinality({i \in 1..Len(pos) : pos[i] \in CaptureIds \cup {PromotionId}})

\* The legal moves of a position; captures and promotions run out with the material.
LegalMoves(tree, pos) ==
    {m \in MoveIds : /\ Attr(tree, pos, m) % 3 # 0
                     /\ (m \in CaptureIds \cup {PromotionId} => TacticalCount(pos) < MaxCaptures)}

InCheck(tree, pos) ==
    /\ pos # <<>> => pos[Len(pos)] # NULL_MOVE
    /\ Attr(tree, pos, 6) % 6 = 0

IsRepetition(tree, pos) ==
    /\ \A i \in 1..Len(pos) : pos[i] \notin CaptureIds \cup {PromotionId}
    /\ Attr(tree, pos, 7) % 11 = 0

HasMajorPieces(tree, pos) == Attr(tree, pos, 8) % 5 # 0

StaticEval(tree, pos) == ((Attr(tree, pos, 9) % 9) - 4) * 75

SeeOk(tree, pos, m) == Attr(tree, pos, 10 + m) % 3 # 0

\* ---------------------------------------------------------------- transposition table

EmptyEntry == [key |-> <<NONE>>, best_move |-> NONE, score |-> 0, depth |-> 0, bound |-> 0,
               generation |-> 0]

tt_new == [entries |-> [i \in 0..(TTCapacity - 1) |-> EmptyEntry], generation |-> 0]

tt_index(tree, key) == Mix(tree, key) % TTCapacity

tt_save(table, index, key, mv, score, depth, bound) ==
    LET entry == table.entries[index]
        score_i16 == Max(-32000, Min(32000, score))
    IN IF entry.key = <<NONE>> \/ depth >= entry.depth \/ entry.generation # table.generation
       THEN [table EXCEPT !.entries[index] =
                [key |-> key,
                 best_move |-> IF mv # NONE THEN mv ELSE entry.best_move,
                 score |-> score_i16, depth |-> depth, bound |-> bound,
                 generation |-> table.generation]]
       ELSE table

\* probe: <<best_move, score, depth, bound>> on a key match, <<>> otherwise.
tt_probe(table, index, key) ==
    LET entry == table.entries[index]
    IN IF entry.key = key THEN <<entry.best_move, entry.score, entry.depth, entry.bound>> ELSE <<>>

\* ---------------------------------------------------------------- search context

ctx_new == [killer_moves |-> [p \in 0..(KILLER_PLIES - 1) |-> <<NONE, NONE>>],
            history |-> [m \in MoveIds |-> 0]]

update_killer(c, ply, mv) ==
    IF c.killer_moves[ply][1] # mv
    THEN [c EXCEPT !.killer_moves[ply] = <<mv, @[1]>>]
    ELSE c

update_history(c, mv, depth) ==
    [c EXCEPT !.history[mv] = @ + Min(depth * depth, 400)]

\* `ctx.history[from][to] /= 8` over the whole table
decay_history(c) == [c EXCEPT !.history = [m \in MoveIds |-> c.history[m] \div 8]]

\* ---------------------------------------------------------------- move picker

\* The elements of a set of moves as a sequence, best score first, ties in
\* generation (identifier) order: the order pick-best selection yields.
RECURSIVE ByScore(_, _)
ByScore(moves, score) ==
    IF moves = {} THEN <<>>
    ELSE LET best == CHOOSE m \in moves :
                        \A o \in moves : score[m] > score[o] \/ (score[m] = score[o] /\ m <= o)
         IN <<best>> \o ByScore(moves \ {best}, score)

picker_new(hash_move, killers, captures_only) ==
    [stage |-> "HashMove", good_captures |-> <<>>, bad_captures |-> <<>>, quiets |-> <<>>,
     hash_move |-> hash_move, killers |-> killers, captures_only |-> captures_only]

is_hash_move(pk, mv) == pk.hash_move # NONE /\ mv = pk.hash_move

is_duplicate(pk, mv) == is_hash_move(pk, mv) \/ (mv # NONE /\ (mv = pk.killers[1] \/ mv = pk.killers[2]))

\* MovePicker::next: the move returned (NONE when exhausted) and the picker after.
RECURSIVE picker_next(_, _, _, _)
picker_next(pk, tree, pos, hist) ==
    LET legal == LegalMoves(tree, pos)
        at(stage) == [pk EXCEPT !.stage = stage]
    IN CASE pk.stage = "HashMove" ->
              IF pk.hash_move # NONE /\ pk.hash_move \in legal
              THEN [mv |-> pk.hash_move, pk |-> at("GenerateCaptures")]
              ELSE picker_next(at("GenerateCaptures"), tree, pos, hist)
         [] pk.stage = "GenerateCaptures" ->
              LET captures == {m \in legal \cap (CaptureIds \cup {PromotionId}) : ~is_hash_move(pk, m)}
                  good == {m \in captures : SeeOk(tree, pos, m)}
                  mvv_lva == [m \in MoveIds |-> captured_value(m)]
              IN picker_next([pk EXCEPT !.stage = "GoodCaptures",
                                        !.good_captures = ByScore(good, mvv_lva),
                                        !.bad_captures = ByScore(captures \ good, [m \in MoveIds |-> 0])],
                             tree, pos, hist)
         [] pk.stage = "GoodCaptures" ->
              IF pk.good_captures # <<>>
              THEN [mv |-> Head(pk.good_captures), pk |-> [pk EXCEPT !.good_captures = Tail(@)]]
              ELSE picker_next(at(IF pk.captures_only THEN "BadCaptures" ELSE "Killer1"), tree, pos, hist)
         [] pk.stage = "Killer1" ->
              LET k1 == pk.killers[1]
              IN IF k1 # NONE /\ ~move_is_capture(k1) /\ ~is_hash_move(pk, k1) /\ k1 \in legal
                 THEN [mv |-> k1, pk |-> at("Killer2")]
                 ELSE picker_next(at("Killer2"), tree, pos, hist)
         [] pk.stage = "Killer2" ->
              LET k2 == pk.killers[2]
              IN IF k2 # NONE /\ ~move_is_capture(k2) /\ ~is_hash_move(pk, k2)
                    /\ k2 # pk.killers[1] /\ k2 \in legal
                 THEN [mv |-> k2, pk |-> at("GenerateQuiets")]
                 ELSE picker_next(at("GenerateQuiets"), tree, pos, hist)
         [] pk.stage = "GenerateQuiets" ->
              picker_next([pk EXCEPT !.stage = "Quiets",
                                     !.quiets = ByScore(legal \ (CaptureIds \cup {PromotionId}), hist)],
                          tree, pos, hist)
         [] pk.stage = "Quiets" ->
              IF pk.quiets = <<>> THEN picker_next(at("BadCaptures"), tree, pos, hist)
              ELSE LET rest == [pk EXCEPT !.quiets = Tail(@)]
                   IN IF is_duplicate(pk, Head(pk.quiets))
                      THEN picker_next(rest, tree, pos, hist)
                      ELSE [mv |-> Head(pk.quiets), pk |-> rest]
         [] pk.stage = "BadCaptures" ->
              IF pk.bad_captures = <<>> THEN picker_next(at("Done"), tree, pos, hist)
              ELSE LET rest == [pk EXCEPT !.bad_captures = Tail(@)]
                   IN IF is_hash_move(pk, Head(pk.bad_captures))
                      THEN picker_next(rest, tree, pos, hist)
                      ELSE [mv |-> Head(pk.bad_captures), pk |-> rest]
         [] OTHER -> [mv |-> NONE, pk |-> pk]

\* ---------------------------------------------------------------- time manager

time_new(limit) == [allotted |-> limit, stop_signal |-> FALSE]

\* check_time; `expired` is the outcome of `elapsed >= limit`.
check_time(t, expired) ==
    IF t.stop_signal THEN t
    ELSE IF t.allotted /\ expired THEN [t EXCEPT !.stop_signal = TRUE]
    ELSE t

\* ---------------------------------------------------------------- call frames

\* One frame per active call of alpha_beta ("ab_...") or quiescence ("q_...");
\* pc is the point the call has reached, the other fields are its arguments
\* and locals.
Frame(pc, pos, depth, ply, alpha, beta) ==
    [pc |-> pc, pos |-> pos, depth |-> depth, ply |-> ply, alpha |-> alpha, beta |-> beta,
     hash_move |-> NONE, best_move |-> NONE, best_score |-> -INF, original_alpha |-> alpha,
     move_count |-> 0, mv |-> NONE, r |-> 0, stand_pat |-> 0,
     picker |-> picker_new(NONE, <<NONE, NONE>>, FALSE)]

ABFrame(pos, depth, ply, alpha, beta) == Frame("ab_enter", pos, depth, ply, alpha, beta)
QFrame(pos, ply, alpha, beta) == Frame("q_enter", pos, 0, ply, alpha, beta)

IsQ(f) == f.pc \in {"q_enter", "q_loop", "q_after_child"}

\* What a stretch of code between two calls does: return to the caller
\* ("ret"), call a child ("call"), or go on in the same frame ("goto"); with
\* the node counter, time manager, table and context it leaves behind, and the
\* counter value at which it called check_time (NONE when it did not).
Outcome(f) ==
    [k |-> "goto", score |-> 0, mv |-> NONE, self |-> f, child |-> f,
     nodes |-> nodes, time |-> time, tt |-> tt, ctx |-> ctx, checked |-> NONE]

Ret(o, score, mv) == [o EXCEPT !.k = "ret", !.score = score, !.mv = mv]
Call(o, self, child) == [o EXCEPT !.k = "call", !.self = self, !.child = child]
Goto(o, self) == [o EXCEPT !.k = "goto", !.self = self]

\* ---------------------------------------------------------------- alpha_beta

\* Faulty variant: the signal is not looked at after the recursive call.
stop_after_child_ignored(t) == FALSE

\* The stop test after the move loop's recursive calls.
stop_after_child(t) == t.stop_signal

\* Lines 315-320: the picker and the loop's locals.
enter_loop(f) ==
    [f EXCEPT !.pc = "ab_loop",
              !.picker = picker_new(f.hash_move, ctx.killer_moves[f.ply], FALSE),
              !.best_move = NONE, !.best_score = -INF, !.original_alpha = f.alpha,
              !.move_count = 0]

\* Lines 199-312: from entry to the first call or return.
alpha_beta_enter(f, expired) ==
    LET tree == srch.tree
        due == check_due(nodes)
        time1 == IF due THEN check_time(time, expired) ELSE time
        o == [Outcome(f) EXCEPT !.time = time1, !.checked = IF due THEN nodes ELSE NONE]
        o1 == [o EXCEPT !.nodes = nodes + 1]
        probe == tt_probe(tt, tt_index(tree, f.pos), f.pos)
        hash_move == IF probe # <<>> THEN probe[1] ELSE NONE
        tt_score == score_from_tt(probe[2], f.ply)
        tt_cut == /\ probe # <<>>
                  /\ probe[3] >= depth_u8(f.depth)
                  /\ f.ply > 0
                  /\ \/ probe[4] = Exact
                     \/ (probe[4] = LowerBound /\ tt_score >= f.beta)
                     \/ (probe[4] = UpperBound /\ tt_score <= f.alpha)
        in_check_now == InCheck(tree, f.pos)
        static_eval_val == IF ~in_check_now THEN StaticEval(tree, f.pos) ELSE 0
        f1 == [f EXCEPT !.hash_move = hash_move]
        r == IF f.depth > 6 THEN 3 ELSE 2
    IN IF time1.stop_signal THEN Ret(o, 0, NONE)
       ELSE IF f.ply > 0 /\ IsRepetition(tree, f.pos) THEN Ret(o1, DRAW_SCORE, NONE)
       ELSE IF tt_cut THEN Ret(o1, tt_score, probe[1])
       ELSE IF f.depth <= 0 /\ ~in_check_now
            THEN Call(o1, [f1 EXCEPT !.pc = "ab_after_q"], QFrame(f.pos, f.ply, f.alpha, f.beta))
       ELSE IF f.depth < RFP_DEPTH_LIMIT /\ ~in_check_now /\ f.ply > 0
               /\ static_eval_val - (RFP_MARGIN_BASE + RFP_MARGIN_MULT * f.depth) >= f.beta
            THEN Ret(o1, f.beta, NONE)
       ELSE IF f.depth >= 4 /\ ~in_check_now /\ HasMajorPieces(tree, f.pos)
               /\ static_eval_val >= f.beta
            THEN Call(o1, [f1 EXCEPT !.pc = "ab_after_null"],
                      ABFrame(Append(f.pos, NULL_MOVE), f.depth - r - 1, f.ply + 1,
                              -f.beta, -f.beta + 1))
       ELSE Goto(o1, enter_loop(f1))

\* Lines 251-254: the quiescence score is returned as it is.
alpha_beta_after_q(f) == Ret(Outcome(f), ret.score, NONE)

\* Lines 301-312: after the null-move search.
alpha_beta_after_null(f) ==
    LET score == -ret.score
    IN IF score >= f.beta /\ ~time.stop_signal /\ ~(score >= MATE_THRESHOLD)
       THEN Ret(Outcome(f), f.beta, NONE)
       ELSE Goto(Outcome(f), enter_loop(f))

\* Faulty variant: the move count is not looked at after the loop.
alpha_beta_finish_uncounted(f) == Ret(Outcome(f), f.best_score, f.best_move)

\* Lines 505-537: after the move loop.
alpha_beta_finish(f) ==
    LET tree == srch.tree
        node_type == IF f.best_score >= f.beta THEN LowerBound
                     ELSE IF f.best_score > f.original_alpha THEN Exact
                     ELSE UpperBound
        saved == tt_save(tt, tt_index(tree, f.pos), f.pos, f.best_move,
                         score_to_tt(f.best_score, f.ply), depth_u8(f.depth), node_type)
    IN IF f.move_count = 0
       THEN Ret(Outcome(f), IF InCheck(tree, f.pos) THEN -MATE_SCORE + f.ply ELSE 0, NONE)
       ELSE IF time.stop_signal THEN Ret(Outcome(f), 0, NONE)
       ELSE Ret([Outcome(f) EXCEPT !.tt = saved], f.best_score, f.best_move)

\* The late-move reduction of lines 384-417.
reduction(f, mv, in_check_now) ==
    IF f.depth > LMR_MIN_DEPTH /\ f.move_count > LMR_MIN_MOVES
       /\ ~move_is_capture(mv) /\ ~move_is_promotion(mv) /\ ~in_check_now
    THEN LET r0 == 1 + (f.depth \div 8) + (f.move_count \div 20)
             r1 == IF ctx.history[mv] > FP_HISTORY_THRESHOLD THEN r0 - 1 ELSE r0
             r2 == IF f.beta - f.alpha > 1 THEN r1 - 1 ELSE r1
         IN Min(Max(r2, 0), f.depth - 2)
    ELSE 0

\* Lines 322-466: the next move that is not pruned, and its first search.
\* (`move_count > lmp_threshold as usize` is never true for a negative threshold.)
RECURSIVE alpha_beta_pick(_)
alpha_beta_pick(f) ==
    LET tree == srch.tree
        n == picker_next(f.picker, tree, f.pos, ctx.history)
        mv == n.mv
        f1 == [f EXCEPT !.picker = n.pk]
        in_check_now == InCheck(tree, f.pos)
        extension == IF in_check_now THEN 1 ELSE 0
        static_eval_val == IF ~in_check_now THEN StaticEval(tree, f.pos) ELSE 0
        quiet == ~move_is_capture(mv) /\ ~move_is_promotion(mv)
        lmp_threshold == LMP_BASE_MOVES + LMP_MOVE_MULTIPLIER * f.depth
        r == reduction(f, mv, in_check_now)
        child == Append(f.pos, mv)
    IN IF mv = NONE THEN alpha_beta_finish(f1)
       ELSE IF f.depth < FP_DEPTH_LIMIT /\ ~in_check_now /\ quiet /\ f.move_count > 0
               /\ ctx.history[mv] < FP_HISTORY_THRESHOLD
               /\ static_eval_val + (FP_MARGIN_BASE + FP_MARGIN_MULT * f.depth) <= f.alpha
            THEN alpha_beta_pick(f1)
       ELSE IF f.depth < LMP_DEPTH_LIMIT /\ ~in_check_now /\ quiet
               /\ f.alpha = f.original_alpha
               /\ lmp_threshold >= 0 /\ f.move_count > lmp_threshold
            THEN alpha_beta_finish(f1)
       ELSE IF f.move_count = 0
            THEN Call(Outcome(f), [f1 EXCEPT !.pc = "ab_after_first", !.mv = mv, !.r = 0],
                      ABFrame(child, f.depth - 1 + extension, f.ply + 1, -f.beta, -f.alpha))
       ELSE Call(Outcome(f), [f1 EXCEPT !.pc = "ab_after_reduced", !.mv = mv, !.r = r],
                 ABFrame(child, f.depth - 1 - r, f.ply + 1, -f.alpha - 1, -f.alpha))

\* Lines 468-502: the move is undone and its score taken in.
alpha_beta_score(f, score) ==
    LET tree == srch.tree
        f1 == [f EXCEPT !.move_count = @ + 1, !.pc = "ab_loop"]
        improved == score > f.best_score
        f2 == IF improved
              THEN [f1 EXCEPT !.best_score = score,
                              !.alpha = IF score > f.alpha THEN score ELSE @,
                              !.best_move = IF score > f.alpha THEN f.mv ELSE @]
              ELSE f1
        saved == tt_save(tt, tt_index(tree, f.pos), f.pos, f.mv, score_to_tt(f.beta, f.ply),
                         depth_u8(f.depth), LowerBound)
        bonus == f.depth * f.depth
        ctx1 == IF ~move_is_capture(f.mv)
                THEN update_history(update_killer(ctx, f.ply, f.mv), f.mv, bonus)
                ELSE ctx
    IN IF stop_after_child(time) THEN Ret(Outcome(f), 0, NONE)
       ELSE IF improved /\ score >= f.beta
            THEN Ret([Outcome(f) EXCEPT !.tt = saved, !.ctx = ctx1], f.beta, f.mv)
       ELSE Goto(Outcome(f), f2)

\* Lines 366-466: what follows the return of a child search of the move.
alpha_beta_after_child(f) ==
    LET score == -ret.score
        extension == IF InCheck(srch.tree, f.pos) THEN 1 ELSE 0
        child == Append(f.pos, f.mv)
        research == Call(Outcome(f), [f EXCEPT !.pc = "ab_after_research"],
                         ABFrame(child, f.depth - 1, f.ply + 1, -f.alpha - 1, -f.alpha))
        full == Call(Outcome(f), [f EXCEPT !.pc = "ab_after_full"],
                     ABFrame(child, f.depth - 1 + extension, f.ply + 1, -f.beta, -f.alpha))
    IN IF f.pc = "ab_after_reduced" /\ score > f.alpha /\ f.r > 0 THEN research
       ELSE IF f.pc \in {"ab_after_reduced", "ab_after_research"}
               /\ score > f.alpha /\ score < f.beta THEN full
       ELSE alpha_beta_score(f, score)

\* ---------------------------------------------------------------- quiescence

\* Faulty variant: the capture loop goes on after the signal.
stop_in_quiescence_ignored(t) == FALSE

\* The stop test of the capture loop.
stop_in_quiescence(t) == t.stop_signal

\* Lines 121-138: up to the capture loop.
quiescence_enter(f) ==
    LET stand_pat == StaticEval(srch.tree, f.pos)
    IN IF f.ply > MAX_Q_SEARCH_DEPTH THEN Ret(Outcome(f), stand_pat, NONE)
       ELSE IF stand_pat >= f.beta THEN Ret(Outcome(f), f.beta, NONE)
       ELSE Goto(Outcome(f), [f EXCEPT !.pc = "q_loop", !.stand_pat = stand_pat,
                                       !.alpha = IF stand_pat >= f.alpha THEN stand_pat ELSE @,
                                       !.picker = picker_new(NONE, <<NONE, NONE>>, TRUE)])

\* Lines 140-173: one turn of the capture loop.
quiescence_pick(f, expired) ==
    LET tree == srch.tree
        n == picker_next(f.picker, tree, f.pos, [m \in MoveIds |-> 0])
        mv == n.mv
        f1 == [f EXCEPT !.picker = n.pk]
        counted == nodes + 1
        due == check_due(counted)
        time1 == IF due THEN check_time(time, expired) ELSE time
        o == [Outcome(f) EXCEPT !.nodes = counted, !.time = time1,
                                !.checked = IF due THEN counted ELSE NONE]
        is_prom == move_is_promotion(mv)
    IN IF mv = NONE THEN Ret(Outcome(f), f.alpha, NONE)
       ELSE IF stop_in_quiescence(time1) THEN Ret(o, f.stand_pat, NONE)
       ELSE IF ~is_prom /\ f.stand_pat + captured_value(mv) + 200 < f.alpha THEN Goto(o, f1)
       ELSE IF ~is_prom /\ ~SeeOk(tree, f.pos, mv) THEN Goto(o, f1)
       ELSE Call(o, [f1 EXCEPT !.pc = "q_after_child", !.mv = mv],
                 QFrame(Append(f.pos, mv), f.ply + 1, -f.beta, -f.alpha))

\* Lines 174-181: the capture is undone and its score taken in.
quiescence_after_child(f) ==
    LET score == -ret.score
    IN IF score >= f.beta THEN Ret(Outcome(f), f.beta, NONE)
       ELSE Goto(Outcome(f), [f EXCEPT !.pc = "q_loop",
                                       !.alpha = IF score > f.alpha THEN score ELSE @])

\* ---------------------------------------------------------------- search (iterative deepening)

Abs(x) == IF x < 0 THEN -x ELSE x

search_new(tree, max_depth) ==
    [phase |-> "head", tree |-> tree, max_depth |-> max_depth, depth |-> 1,
     alpha |-> -INF, beta |-> INF,
     last_completed_best_score |-> 0, last_completed_best_move |-> NONE]

\* Lines 581-589: the aspiration window of an iteration.
aspiration(sr) ==
    IF sr.depth > 4
    THEN [sr EXCEPT !.alpha = sr.last_completed_best_score - ASPIRATION_WINDOW,
                    !.beta = sr.last_completed_best_score + ASPIRATION_WINDOW]
    ELSE [sr EXCEPT !.alpha = -INF, !.beta = INF]

\* Faulty variant: the root result is recorded before the stop signal is tested.
search_after_root_unguarded(sr, score, mv, stop_signal) ==
    IF stop_signal
    THEN [sr EXCEPT !.last_completed_best_score = score, !.last_completed_best_move = mv,
                    !.phase = "done"]
    ELSE IF score <= sr.alpha THEN [sr EXCEPT !.alpha = -INF, !.phase = "again"]
    ELSE IF score >= sr.beta THEN [sr EXCEPT !.beta = INF, !.phase = "again"]
    ELSE [sr EXCEPT !.last_completed_best_score = score,
                    !.last_completed_best_move = mv,
                    !.phase = IF Abs(score) >= MATE_THRESHOLD THEN "done" ELSE "head",
                    !.depth = IF Abs(score) >= MATE_THRESHOLD THEN @ ELSE @ + 1]

\* Faulty variant: a failed window is widened by another ASPIRATION_WINDOW.
search_after_root_stepwise(sr, score, mv, stop_signal) ==
    IF stop_signal THEN [sr EXCEPT !.phase = "done"]
    ELSE IF score <= sr.alpha
         THEN [sr EXCEPT !.alpha = Max(-INF, @ - ASPIRATION_WINDOW), !.phase = "again"]
    ELSE IF score >= sr.beta
         THEN [sr EXCEPT !.beta = Min(INF, @ + ASPIRATION_WINDOW), !.phase = "again"]
    ELSE [sr EXCEPT !.last_completed_best_score = score,
                    !.last_completed_best_move = mv,
                    !.phase = IF Abs(score) >= MATE_THRESHOLD THEN "done" ELSE "head",
                    !.depth = IF Abs(score) >= MATE_THRESHOLD THEN @ ELSE @ + 1]

\* Lines 600-666: what search does with the root result (score, mv): stop,
\* search again with a wider window, or close the iteration.
search_after_root(sr, score, mv, stop_signal) ==
    IF stop_signal THEN [sr EXCEPT !.phase = "done"]
    ELSE IF score <= sr.alpha THEN [sr EXCEPT !.alpha = -INF, !.phase = "again"]
    ELSE IF score >= sr.beta THEN [sr EXCEPT !.beta = INF, !.phase = "again"]
    ELSE [sr EXCEPT !.last_completed_best_score = score,
                    !.last_completed_best_move = mv,
                    !.phase = IF Abs(score) >= MATE_THRESHOLD THEN "done" ELSE "head",
                    !.depth = IF Abs(score) >= MATE_THRESHOLD THEN @ ELSE @ + 1]

\* The value search returns (line 669).
search_result(sr) ==
    [score |-> sr.last_completed_best_score, mv |-> sr.last_completed_best_move]

\* ---------------------------------------------------------------- the search machine

\* No board is being played.
BoardIdle ==
    /\ scen = 0
    /\ board = <<>>
    /\ trail = <<>>
    /\ last = [op |-> "idle"]
    /\ window = <<>>

\* What is observed of a run, for the properties below: the counter value at
\* the last check_time call and the distance between the last two calls; the
\* counter, the quiescence frames and the stack height when the stop signal
\* was raised; the result of the last iteration that closed with the signal
\* down; the alpha_beta frames unwound past a child with the signal up.
WatchInit ==
    [last_check |-> 0, check_gap |-> 0, stop_nodes |-> NONE, stop_qframes |-> 0,
     stop_height |-> 0, completed |-> <<>>, unwound |-> 0, roots |-> 0]

InitSearch ==
    /\ BoardIdle
    /\ \E tree \in 1..MaxTree, max_depth \in 1..MaxDepth : srch = search_new(tree, max_depth)
    /\ \E limit \in BOOLEAN : time = time_new(limit)
    /\ stack = <<>>
    /\ ret = [score |-> 0, mv |-> NONE]
    /\ nodes = 0
    /\ tt = tt_new
    /\ ctx = ctx_new
    /\ watch = WatchInit
    /\ PickerIdle

Top == stack[Len(stack)]

QFrames(st) == Cardinality({i \in 1..Len(st) : IsQ(st[i])})

\* `elapsed >= limit` can come out either way while a limit is set.
Expiry(due) == IF due /\ time.allotted /\ ~time.stop_signal THEN BOOLEAN ELSE {FALSE}

Observe(o) ==
    LET raised == o.time.stop_signal /\ ~time.stop_signal
        past_child == Top.pc \in {"ab_loop", "ab_after_first", "ab_after_reduced",
                                  "ab_after_research", "ab_after_full"}
    IN [watch EXCEPT
          !.check_gap = IF o.checked # NONE THEN o.checked - watch.last_check ELSE @,
          !.last_check = IF o.checked # NONE THEN o.checked ELSE @,
          !.stop_nodes = IF raised THEN o.nodes ELSE @,
          !.stop_qframes = IF raised THEN QFrames(stack) ELSE @,
          !.stop_height = IF raised THEN Len(stack) ELSE @,
          !.unwound = IF o.k = "ret" /\ time.stop_signal /\ past_child THEN @ + 1 ELSE @]

\* The top frame runs to its next call or return.
Step(o) ==
    /\ stack' = CASE o.k = "ret" -> SubSeq(stack, 1, Len(stack) - 1)
                  [] o.k = "call" -> Append([stack EXCEPT ![Len(stack)] = o.self], o.child)
                  [] o.k = "goto" -> [stack EXCEPT ![Len(stack)] = o.self]
    /\ ret' = IF o.k = "ret" THEN [score |-> o.score, mv |-> o.mv] ELSE ret
    /\ nodes' = o.nodes
    /\ time' = o.time
    /\ tt' = o.tt
    /\ ctx' = o.ctx
    /\ watch' = Observe(o)
    /\ UNCHANGED <<srch, board_vars, picker_vars>>

At(pcs) == stack # <<>> /\ Top.pc \in pcs

AlphaBetaEnter ==
    /\ At({"ab_enter"})
    /\ \E expired \in Expiry(check_due(nodes)) : Step(alpha_beta_enter(Top, expired))

AlphaBetaAfterQuiescence == At({"ab_after_q"}) /\ Step(alpha_beta_after_q(Top))

AlphaBetaAfterNull == At({"ab_after_null"}) /\ Step(alpha_beta_after_null(Top))

AlphaBetaPickMove == At({"ab_loop"}) /\ Step(alpha_beta_pick(Top))

AlphaBetaAfterChild ==
    /\ At({"ab_after_first", "ab_after_reduced", "ab_after_research", "ab_after_full"})
    /\ Step(alpha_beta_after_child(Top))

QuiescenceEnter == At({"q_enter"}) /\ Step(quiescence_enter(Top))

QuiescencePickMove ==
    /\ At({"q_loop"})
    /\ \E expired \in Expiry(check_due(nodes + 1)) : Step(quiescence_pick(Top, expired))

QuiescenceAfterChild == At({"q_after_child"}) /\ Step(quiescence_after_child(Top))

\* Lines 554-598: an iteration starts: history decay, window, root call.
SearchStartIteration ==
    /\ srch.phase = "head"
    /\ srch.depth <= srch.max_depth
    /\ LET sr == aspiration(srch)
       IN /\ srch' = [sr EXCEPT !.phase = "root"]
          /\ stack' = <<ABFrame(<<>>, sr.depth, 0, sr.alpha, sr.beta)>>
    /\ ctx' = decay_history(ctx)
    /\ watch' = [watch EXCEPT !.roots = 1]
    /\ UNCHANGED <<ret, nodes, time, tt, board_vars, picker_vars>>

\* Lines 561-571: the next depth is predicted not to fit the limit.
SearchPredictsNoTime ==
    /\ srch.phase = "head"
    /\ srch.depth <= srch.max_depth
    /\ srch.depth > 1
    /\ time.allotted
    /\ srch' = [srch EXCEPT !.phase = "done"]
    /\ UNCHANGED <<stack, ret, nodes, time, tt, ctx, watch, board_vars, picker_vars>>

\* Line 554: max_depth has been searched.
SearchDepthReached ==
    /\ srch.phase = "head"
    /\ srch.depth > srch.max_depth
    /\ srch' = [srch EXCEPT !.phase = "done"]
    /\ UNCHANGED <<stack, ret, nodes, time, tt, ctx, watch, board_vars, picker_vars>>

\* Lines 600-666: the root call has returned.
SearchAfterRoot ==
    /\ srch.phase = "root"
    /\ stack = <<>>
    /\ LET sr == search_after_root(srch, ret.score, ret.mv, time.stop_signal)
           closed == ~time.stop_signal /\ ret.score > srch.alpha /\ ret.score < srch.beta
       IN /\ srch' = IF sr.phase = "again" THEN [sr EXCEPT !.phase = "root"] ELSE sr
          /\ stack' = IF sr.phase = "again"
                      THEN <<ABFrame(<<>>, sr.depth, 0, sr.alpha, sr.beta)>>
                      ELSE <<>>
          /\ watch' = [watch EXCEPT !.completed = IF closed THEN <<ret>> ELSE @,
                                    !.roots = IF sr.phase = "again" THEN @ + 1 ELSE @]
    /\ UNCHANGED <<ret, nodes, time, tt, ctx, board_vars, picker_vars>>

NextSearch ==
    \/ SearchStartIteration
    \/ SearchPredictsNoTime
    \/ SearchDepthReached
    \/ SearchAfterRoot
    \/ AlphaBetaEnter
    \/ AlphaBetaAfterQuiescence
    \/ AlphaBetaAfterNull
    \/ AlphaBetaPickMove
    \/ AlphaBetaAfterChild
    \/ QuiescenceEnter
    \/ QuiescencePickMove
    \/ QuiescenceAfterChild

SpecSearch == InitSearch /\ [][NextSearch]_vars

\* ---------------------------------------------------------------- split generation for the staged picker

\* The attack set of a non-pawn piece standing on `from`.
attacks_from(b, piece, from) ==
    CASE piece = Knight -> KNIGHT_ATTACKS[from]
      [] piece = Bishop -> bishop_attacks_per_square(from, b.occ_all)
      [] piece = Rook -> rook_attacks_per_square(from, b.occ_all)
      [] piece = Queen -> queen_attacks(from, b.occ_all)
      [] piece = King -> KING_ATTACKS[from]

push_captures_only(from, targets, enemy, piece) ==
    {Move(from, to, piece, NONE, CAPTURE) : to \in targets \cap enemy}

push_quiets_only(from, targets, empty, piece) ==
    {Move(from, to, piece, NONE, QUIET_MOVE) : to \in targets \cap empty}

\* generate_knight_captures .. generate_king_captures
generate_piece_captures(b, piece) ==
    LET color == b.side_to_move
        enemy_king == b.piece_bb[opposite(color)][King]
        enemy_without_king == occupancy(b, opposite(color)) \ enemy_king
    IN UNION {push_captures_only(from,
                                 (attacks_from(b, piece, from) \ occupancy(b, color)) \ enemy_king,
                                 enemy_without_king, piece) : from \in b.piece_bb[color][piece]}

\* generate_knight_quiets .. generate_queen_quiets, and the king's steps
generate_piece_quiets(b, piece) ==
    UNION {push_quiets_only(from, attacks_from(b, piece, from), Squares \ b.occ_all, piece) :
              from \in b.piece_bb[b.side_to_move][piece]}

\* The castling moves of generate_king_quiets: the king side is tested with
\* is_legal_castling here, the queen side is pushed untested.
generate_king_quiets(b) ==
    LET color == b.side_to_move
    IN IF b.piece_bb[color][King] = {} THEN {}
       ELSE LET from == king_square(b, color)
                ks == Move(from, from + 2, King, NONE, KINGSIDE_CASTLE)
                qs == Move(from, from - 2, King, NONE, QUEENSIDE_CASTLE)
            IN generate_piece_quiets(b, King)
                 \cup (IF has_kingside_castle(b, color)
                          /\ b.occ_all \cap kingside_between(color) = {}
                          /\ is_legal_castling(b, ks)
                       THEN {ks} ELSE {})
                 \cup (IF has_queenside_castle(b, color)
                          /\ b.occ_all \cap queenside_between(color) = {}
                       THEN {qs} ELSE {})

\* Pawn captures, promotion pushes, promotion captures and en passant.
generate_pawn_captures(b) ==
    LET color == b.side_to_move
        pawns == b.piece_bb[color][Pawn]
        enemy_without_king == occupancy(b, opposite(color)) \ b.piece_bb[opposite(color)][King]
        empty == Squares \ b.occ_all
        up == IF color = White THEN 8 ELSE -8
        start_rank == IF color = White THEN 6 ELSE 1
        promo_rank == IF color = White THEN 7 ELSE 0
        captures == UNION {{Move(from, to, Pawn, NONE, CAPTURE) :
                               to \in {t \in pawn_attacks(from, color) \cap enemy_without_king :
                                          RankOf(t) # promo_rank}} :
                              from \in {s \in pawns : RankOf(s) # start_rank}}
        promo_pushes == UNION {{Move(s, s + up, Pawn, promo, PROMOTION) : promo \in PROMOS} :
                                  s \in {s \in pawns : RankOf(s) = start_rank /\ s + up \in empty}}
        promo_captures == UNION {UNION {{Move(from, to, Pawn, promo, PROMOTION_CAPTURE) : promo \in PROMOS} :
                                           to \in {t \in pawn_attacks(from, color) \cap enemy_without_king :
                                                      RankOf(t) = promo_rank}} :
                                    from \in {s \in pawns : RankOf(s) = start_rank}}
        en_passant == IF b.en_passant # NONE /\ b.en_passant \in empty
                         /\ (b.en_passant - up) \in b.piece_bb[opposite(color)][Pawn]
                      THEN {Move(from, b.en_passant, Pawn, NONE, EN_PASSANT) :
                               from \in {s \in pawns : b.en_passant \in pawn_attacks(s, color)}}
                      ELSE {}
    IN captures \cup promo_pushes \cup promo_captures \cup en_passant

\* Single pushes short of the promotion rank, and double pushes.
generate_pawn_quiets(b) ==
    LET color == b.side_to_move
        pawns == b.piece_bb[color][Pawn]
        empty == Squares \ b.occ_all
        up == IF color = White THEN 8 ELSE -8
        promo_rank == IF color = White THEN 7 ELSE 0
        home_rank == IF color = White THEN 1 ELSE 6
    IN {Move(s, s + up, Pawn, NONE, QUIET_MOVE) :
           s \in {s \in pawns : s + up \in empty /\ RankOf(s + up) # promo_rank}}
       \cup {Move(s, s + 2 * up, Pawn, NONE, DOUBLE_PAWN_PUSH) :
                s \in {s \in pawns : RankOf(s) = home_rank /\ s + up \in empty
                                       /\ s + 2 * up \in empty}}

\* The order a buffer is filled in: by from square, then to square, then
\* promotion piece (queen, rook, bishop, knight).
MoveKey(mv) == (mv.from * 64 + mv.to) * 8 + (IF mv.promotion = NONE THEN 0 ELSE King - mv.promotion)

RECURSIVE Ordered(_)
Ordered(moves) ==
    IF moves = {} THEN <<>>
    ELSE LET first == CHOOSE m \in moves : \A o \in moves : MoveKey(m) <= MoveKey(o)
         IN <<first>> \o Ordered(moves \ {first})

generate_pseudo_legal_captures(b) ==
    Ordered(generate_pawn_captures(b)) \o Ordered(generate_piece_captures(b, Knight))
      \o Ordered(generate_piece_captures(b, Bishop)) \o Ordered(generate_piece_captures(b, Rook))
      \o Ordered(generate_piece_captures(b, Queen)) \o Ordered(generate_piece_captures(b, King))

generate_pseudo_legal_quiets(b) ==
    Ordered(generate_pawn_quiets(b)) \o Ordered(generate_piece_quiets(b, Knight))
      \o Ordered(generate_piece_quiets(b, Bishop)) \o Ordered(generate_piece_quiets(b, Rook))
      \o Ordered(generate_piece_quiets(b, Queen)) \o Ordered(generate_king_quiets(b))

\* is_legal_move: a castling move is judged by is_legal_castling alone, any
\* other move by making it and testing the mover's king.
is_legal_move(b, mv) ==
    IF is_castling(mv) THEN is_legal_castling(b, mv)
    ELSE ~in_check(make_move_basic(b, mv).board, b.side_to_move)

\* ---------------------------------------------------------------- static exchange evaluation

\* The piece values static_exchange_eval counts with.
piece_value(p) ==
    CASE p = Pawn -> 100 [] p = Knight -> 320 [] p = Bishop -> 330
      [] p = Rook -> 500 [] p = Queen -> 900 [] p = King -> 20000

\* Piece::value and Piece::attacker_value, as mvv_lva_score uses them.
value(p) == IF p = King THEN 0 ELSE piece_value(p)
attacker_value(p) == p + 1

\* Every piece of either colour, still in `occ`, that attacks `square`.
get_attackers_to_square_see(b, square, occ) ==
    LET both(piece) == b.piece_bb[White][piece] \cup b.piece_bb[Black][piece]
    IN ((pawn_attacks(square, Black) \cap b.piece_bb[White][Pawn])
          \cup (pawn_attacks(square, White) \cap b.piece_bb[Black][Pawn])
          \cup (KNIGHT_ATTACKS[square] \cap both(Knight))
          \cup (KING_ATTACKS[square] \cap both(King))
          \cup (bishop_attacks_per_square(square, occ) \cap (both(Bishop) \cup both(Queen)))
          \cup (rook_attacks_per_square(square, occ) \cap (both(Rook) \cup both(Queen)))) \cap occ

\* The square of side's least valuable attacker, 64 when it has none.
get_lva_square(b, attackers, side) ==
    LET side_attackers == attackers \cap occupancy(b, side)
    IN IF side_attackers = {} THEN 64
       ELSE LET piece == CHOOSE p \in Pieces :
                            /\ side_attackers \cap b.piece_bb[side][p] # {}
                            /\ \A q \in Pieces : q < p => side_attackers \cap b.piece_bb[side][q] = {}
                subset == side_attackers \cap b.piece_bb[side][piece]
            IN CHOOSE s \in subset : \A t \in subset : s <= t

\* The swap loop: gain[0..d-1] as a sequence, one entry per capture made.
RECURSIVE see_swap(_, _, _, _, _, _, _)
see_swap(b, to_sq, gain, attackers, occ, next_victim, side) ==
    LET attacker_sq == get_lva_square(b, attackers, side)
    IN IF attacker_sq = 64 \/ Len(gain) >= 31 THEN gain
       ELSE see_swap(b, to_sq, Append(gain, piece_value(next_victim) - gain[Len(gain)]),
                     IF next_victim \in {Bishop, Rook, Queen}
                     THEN get_attackers_to_square_see(b, to_sq, occ \ {attacker_sq}) \ {attacker_sq}
                     ELSE attackers \ {attacker_sq},
                     occ \ {attacker_sq}, b.piece_on_sq[attacker_sq] % 8, opposite(side))

\* The back-propagation: gain[d-1] = -max(-gain[d-1], gain[d]) down to gain[0].
RECURSIVE see_backprop(_)
see_backprop(gain) ==
    IF Len(gain) <= 1 THEN gain[1]
    ELSE see_backprop(Append(SubSeq(gain, 1, Len(gain) - 2),
                             -Max(-gain[Len(gain) - 1], gain[Len(gain)])))

\* static_exchange_eval(m, threshold): the exchange on m.to does not lose
\* more than the threshold allows.
static_exchange_eval(b, m, threshold) ==
    IF ~is_en_passant(m) /\ b.piece_on_sq[m.to] = EMPTY_SQ THEN threshold <= 0
    ELSE LET victim == IF is_en_passant(m) THEN Pawn ELSE b.piece_on_sq[m.to] % 8
             first == piece_value(victim)
                        + (IF m.promotion # NONE THEN piece_value(m.promotion) - piece_value(Pawn) ELSE 0)
             occ == b.occ_all \ {m.from}
         IN IF first < threshold THEN FALSE
            ELSE see_backprop(see_swap(b, m.to, <<first>>,
                                       get_attackers_to_square_see(b, m.to, occ), occ,
                                       IF m.promotion # NONE THEN m.promotion
                                       ELSE b.piece_on_sq[m.from] % 8,
                                       opposite(b.side_to_move))) >= threshold

\* mvv_lva_score: ten times the victim's value less the attacker's rank.
mvv_lva_score(mv, b) ==
    IF ~is_capture(mv) THEN 0
    ELSE IF b.piece_on_sq[mv.to] # EMPTY_SQ
         THEN value(b.piece_on_sq[mv.to] % 8) * 10 - attacker_value(mv.piece)
         ELSE IF is_en_passant(mv) THEN 999 ELSE 0

\* ---------------------------------------------------------------- the staged move picker on the board

\* is_pseudo_legal: the test a hash move or killer passes before it is tried.
is_pseudo_legal(b, mv) ==
    LET color == b.side_to_move
        empty == Squares \ b.occ_all
        up == IF color = White THEN 8 ELSE -8
        double_rank == IF color = White THEN 1 ELSE 6
        promo_rank == IF color = White THEN 7 ELSE 0
        attacked == pawn_attacks(mv.from, color)
    IN /\ mv.from \in b.piece_bb[color][mv.piece]
       /\ mv.to \notin occupancy(b, color)
       /\ ~(is_capture(mv) /\ ~is_en_passant(mv) /\ mv.to \notin occupancy(b, opposite(color)))
       /\ mv.to \notin b.piece_bb[opposite(color)][King]
       /\ CASE mv.piece = Pawn ->
                 /\ IF is_en_passant(mv)
                    THEN b.en_passant # NONE /\ mv.to = b.en_passant /\ mv.to \in attacked
                    ELSE IF is_capture(mv) THEN mv.to \in attacked
                    ELSE IF mv.flags = DOUBLE_PAWN_PUSH
                         THEN /\ RankOf(mv.from) = double_rank
                              /\ mv.to = mv.from + 2 * up
                              /\ mv.from + up \in empty
                              /\ mv.to \in empty
                         ELSE mv.to = mv.from + up /\ mv.to \in empty
                 /\ is_promotion(mv) => RankOf(mv.to) = promo_rank
            [] mv.piece = King /\ is_castling(mv) ->
                 IF mv.flags = KINGSIDE_CASTLE
                 THEN has_kingside_castle(b, color) /\ b.occ_all \cap kingside_between(color) = {}
                 ELSE has_queenside_castle(b, color) /\ b.occ_all \cap queenside_between(color) = {}
            [] OTHER -> mv.to \in attacks_from(b, mv.piece, mv.from)

\* An Option<Move> is <<>> (None) or <<mv>> (Some).  Moves are compared by
\* from, to and promotion.
same_squares(mv, option) ==
    /\ option # <<>>
    /\ mv.from = option[1].from /\ mv.to = option[1].to
    /\ mv.promotion = option[1].promotion

MovePicker_is_hash_move(pk, mv) == same_squares(mv, pk.hash_move)

MovePicker_is_killer(pk, mv) == \E i \in 1..2 : same_squares(mv, pk.killers[i])

MovePicker_is_duplicate(pk, mv) == MovePicker_is_hash_move(pk, mv) \/ MovePicker_is_killer(pk, mv)

\* generate_and_classify_captures: the captures other than the hash move,
\* those that pass SEE at 0 in good_captures, the others in bad_captures.
generate_and_classify_captures(pk, b) ==
    LET captures == SelectSeq(generate_pseudo_legal_captures(b),
                              LAMBDA mv : ~MovePicker_is_hash_move(pk, mv))
    IN [pk EXCEPT !.good_captures = SelectSeq(captures, LAMBDA mv : static_exchange_eval(b, mv, 0)),
                  !.bad_captures = SelectSeq(captures, LAMBDA mv : ~static_exchange_eval(b, mv, 0))]

\* The score generate_quiets gives a quiet move: its history count and a
\* bonus for a pawn advancing to ranks 4/5 or 6/7.
quiet_score(b, mv, history) ==
    LET to_rank == RankOf(mv.to)
        is_advancing == IF b.side_to_move = White THEN to_rank > RankOf(mv.from)
                        ELSE to_rank < RankOf(mv.from)
    IN history[mv.from][mv.to]
         + (IF mv.piece = Pawn /\ is_advancing /\ to_rank \in {3, 4} THEN 1000 ELSE 0)
         + (IF mv.piece = Pawn /\ is_advancing /\ to_rank \in {5, 6} THEN 2000 ELSE 0)

\* pick_best_capture, pick_best_quiet: the index of the first best-scoring
\* move of the buffer; it is swapped to the front and taken.
pick_best(scores) ==
    CHOOSE i \in 1..Len(scores) :
        /\ \A j \in 1..Len(scores) : scores[j] <= scores[i]
        /\ \A j \in 1..(i - 1) : scores[j] < scores[i]

after_pick(buffer, i) == Tail([buffer EXCEPT ![i] = buffer[1]])

\* The stage that follows GoodCaptures.
after_good_captures_to_killers(captures_only) == "Killer1"

after_good_captures(captures_only) == IF captures_only THEN "BadCaptures" ELSE "Killer1"

\* MovePicker::next on a board: the move returned (<<>> when exhausted) and
\* the picker after the call.
RECURSIVE MovePicker_next(_, _, _)
MovePicker_next(pk, b, history) ==
    LET at(stage) == [pk EXCEPT !.stage = stage]
    IN CASE pk.stage = "HashMove" ->
              IF pk.hash_move # <<>> /\ is_pseudo_legal(b, pk.hash_move[1])
                 /\ is_legal_move(b, pk.hash_move[1])
              THEN [mv |-> pk.hash_move, pk |-> at("GenerateCaptures")]
              ELSE MovePicker_next(at("GenerateCaptures"), b, history)
         [] pk.stage = "GenerateCaptures" ->
              MovePicker_next(generate_and_classify_captures(at("GoodCaptures"), b), b, history)
         [] pk.stage = "GoodCaptures" ->
              IF pk.good_captures = <<>>
              THEN MovePicker_next(at(after_good_captures(pk.captures_only)), b, history)
              ELSE LET i == pick_best([j \in 1..Len(pk.good_captures) |->
                                         mvv_lva_score(pk.good_captures[j], b)])
                       mv == pk.good_captures[i]
                       rest == [pk EXCEPT !.good_captures = after_pick(@, i)]
                   IN IF ~MovePicker_is_hash_move(pk, mv) /\ is_legal_move(b, mv)
                      THEN [mv |-> <<mv>>, pk |-> rest]
                      ELSE MovePicker_next(rest, b, history)
         [] pk.stage = "Killer1" ->
              LET k1 == pk.killers[1]
              IN IF k1 # <<>> /\ ~is_capture(k1[1]) /\ ~MovePicker_is_hash_move(pk, k1[1])
                    /\ is_pseudo_legal(b, k1[1]) /\ is_legal_move(b, k1[1])
                 THEN [mv |-> k1, pk |-> at("Killer2")]
                 ELSE MovePicker_next(at("Killer2"), b, history)
         [] pk.stage = "Killer2" ->
              LET k2 == pk.killers[2]
              IN IF k2 # <<>> /\ ~is_capture(k2[1]) /\ ~MovePicker_is_hash_move(pk, k2[1])
                    /\ ~same_squares(k2[1], pk.killers[1])
                    /\ is_pseudo_legal(b, k2[1]) /\ is_legal_move(b, k2[1])
                 THEN [mv |-> k2, pk |-> at("GenerateQuiets")]
                 ELSE MovePicker_next(at("GenerateQuiets"), b, history)
         [] pk.stage = "GenerateQuiets" ->
              MovePicker_next([pk EXCEPT !.stage = "Quiets",
                                         !.quiets = generate_pseudo_legal_quiets(b)], b, history)
         [] pk.stage = "Quiets" ->
              IF pk.quiets = <<>> THEN MovePicker_next(at("BadCaptures"), b, history)
              ELSE LET i == pick_best([j \in 1..Len(pk.quiets) |->
                                         quiet_score(b, pk.quiets[j], history)])
                       mv == pk.quiets[i]
                       rest == [pk EXCEPT !.quiets = after_pick(@, i)]
                   IN IF ~MovePicker_is_duplicate(pk, mv) /\ is_legal_move(b, mv)
                      THEN [mv |-> <<mv>>, pk |-> rest]
                      ELSE MovePicker_next(rest, b, history)
         [] pk.stage = "BadCaptures" ->
              IF pk.bad_captures = <<>> THEN MovePicker_next(at("Done"), b, history)
              ELSE LET mv == Head(pk.bad_captures)
                       rest == [pk EXCEPT !.bad_captures = Tail(@)]
                   IN IF ~MovePicker_is_hash_move(pk, mv) /\ is_legal_move(b, mv)
                      THEN [mv |-> <<mv>>, pk |-> rest]
                      ELSE MovePicker_next(rest, b, history)
         [] OTHER -> [mv |-> <<>>, pk |-> pk]

\* ---------------------------------------------------------------- a picker run on its own

\* One MovePicker is created for a position and next() is called until it
\* returns None.  The hash move and the killers are any of a few moves: moves
\* of the position, the same squares under the flags of another position (a
\* killer comes from a sibling node, a hash move from any position with the
\* same key), and moves no generator yields.
PickerScenarios == {3, 9, 10}

PickerCandidates(n) ==
    CASE n = 3 -> {Move(51, 35, Pawn, NONE, DOUBLE_PAWN_PUSH), Move(57, 40, Knight, NONE, QUIET_MOVE),
                   Move(51, 43, Pawn, NONE, QUIET_MOVE), Move(51, 43, Pawn, NONE, DOUBLE_PAWN_PUSH),
                   Move(60, 52, King, NONE, QUIET_MOVE)}
      [] n = 9 -> {Move(36, 43, Pawn, NONE, EN_PASSANT), Move(36, 43, Pawn, NONE, CAPTURE),
                   Move(28, 43, Knight, NONE, QUIET_MOVE), Move(36, 44, Pawn, NONE, QUIET_MOVE)}
      [] n = 10 -> {Move(21, 36, Knight, NONE, CAPTURE), Move(21, 36, Knight, NONE, QUIET_MOVE),
                    Move(48, 56, Pawn, Queen, PROMOTION), Move(48, 56, Pawn, NONE, QUIET_MOVE),
                    Move(4, 6, King, NONE, KINGSIDE_CASTLE), Move(4, 12, King, NONE, QUIET_MOVE),
                    Move(7, 15, Queen, NONE, QUIET_MOVE)}

OptionOf(values) == {<<>>} \cup {<<v>> : v \in values}

\* The history table of a fresh search context.
NoHistory == [from \in Squares |-> [to \in Squares |-> 0]]

InitPicker ==
    /\ SearchIdle
    /\ scen \in PickerScenarios
    /\ board = ScenarioBoard(scen)
    /\ trail = <<>>
    /\ last = [op |-> "init", mv |-> Move(0, 0, Pawn, NONE, QUIET_MOVE)]
    /\ window = <<>>
    /\ \E hash_move \in OptionOf(PickerCandidates(scen)),
          k1 \in OptionOf(PickerCandidates(scen)),
          k2 \in OptionOf(PickerCandidates(scen)),
          captures_only \in BOOLEAN :
            picker = picker_new(hash_move, <<k1, k2>>, captures_only)
    /\ picked = <<>>

\* picker.next(board, tables, history) has returned r.mv.
Picked(r) ==
    /\ picker' = r.pk
    /\ picked' = picked \o r.mv
    /\ last' = [op |-> IF r.mv # <<>> THEN "some" ELSE "none", mv |-> last.mv]

PickerNext ==
    /\ picker.stage # "Done"
    /\ Picked(MovePicker_next(picker, board, NoHistory))
    /\ UNCHANGED <<scen, board, trail, window, search_vars>>

NextPicker == PickerNext

SpecPicker == InitPicker /\ [][NextPicker]_vars

\* What a run has returned, compared as the picker compares moves.
Triple(mv) == <<mv.from, mv.to, mv.promotion>>

Triples(moves) == {Triple(mv) : mv \in moves}

PickedSet == {picked[i] : i \in 1..Len(picked)}

\* ---------------------------------------------------------------- the transposition table on its own

\* The table as tt.rs keeps it: a power-of-two number of slots, u64 keys with
\* 0 marking a slot never written, the slot of a key at key & (len - 1).
TTIndexBits == 1
TTSlots == 2 ^ TTIndexBits

TTEntry(key, best_move, score, depth, bound, generation) ==
    [key |-> key, best_move |-> best_move, score |-> score, depth |-> depth, bound |-> bound,
     generation |-> generation]

TranspositionTable_new ==
    [entries |-> [i \in 0..(TTSlots - 1) |-> TTEntry(0, NONE, 0, 0, 0, 0)], generation |-> 0]

\* generation is a u8
new_search(table) == [table EXCEPT !.generation = (@ + 1) % 256]

\* key & (len - 1), len a power of two
slot_of(table, key) == key % Cardinality(DOMAIN table.entries)

replaces_always(entry, depth, generation) == TRUE

\* The replacement test of save.
replaces(entry, depth, generation) ==
    entry.key = 0 \/ depth >= entry.depth \/ entry.generation # generation

best_move_incoming(mv, existing) == mv

\* The best move save writes: the incoming one, or the existing one when
\* none comes in.
best_move_kept(mv, existing) == IF mv # NONE THEN mv ELSE existing

save(table, key, mv, score, depth, bound, ply) ==
    LET score_i16 == Max(-32000, Min(32000, score))
        index == slot_of(table, key)
        entry == table.entries[index]
    IN IF replaces(entry, depth, table.generation)
       THEN [table EXCEPT !.entries[index] =
                TTEntry(key, best_move_kept(mv, entry.best_move), score_i16, depth, bound,
                        table.generation)]
       ELSE table

key_ignored(entry, key) == TRUE

key_matches(entry, key) == entry.key = key

\* probe: <<best_move, score, depth, bound>> on a key match, <<>> otherwise.
probe(table, key, depth, alpha, beta, ply) ==
    LET entry == table.entries[slot_of(table, key)]
    IN IF key_matches(entry, key)
       THEN <<entry.best_move, entry.score, entry.depth, entry.bound>>
       ELSE <<>>

\* A table is created and saved to, probed and moved to the next generation
\* in any order.  The keys cover every slot twice and include 0.
MaxTTOps == 3
MaxTTGenerations == 1

TTKeys == 0..(2 * TTSlots - 1)
TTMoves == {NONE, 1, 2}
TTDepths == {1, 2}
\* score and bound of a save: an exact score, and a lower bound beyond i16's clamp
TTResults == {<<-7, Exact>>, <<40000, LowerBound>>}
\* depth, alpha, beta, ply of a probe
TTProbeArgs == {<<1, -7, 40000, 0>>, <<2, 40000, -7, 3>>}

InitTT ==
    /\ BoardIdle
    /\ PickerIdle
    /\ srch = [phase |-> "idle"]
    /\ stack = <<>>
    /\ ret = <<>>
    /\ nodes = 0
    /\ time = [allotted |-> FALSE, stop_signal |-> FALSE]
    /\ tt = TranspositionTable_new
    /\ ctx = <<>>
    /\ watch = [op |-> "new", saved |-> {}]

\* nodes counts the calls made on the table; watch.saved is the set of
\* <<key, move>> pairs the save calls so far were given.
TTSave ==
    /\ nodes < MaxTTOps
    /\ \E key \in TTKeys, mv \in TTMoves, result \in TTResults, depth \in TTDepths :
          /\ tt' = save(tt, key, mv, result[1], depth, result[2], 0)
          /\ watch' = [op |-> "save", key |-> key, mv |-> mv, score |-> result[1],
                       depth |-> depth, bound |-> result[2],
                       saved |-> watch.saved \cup {<<key, mv>>}]
    /\ nodes' = nodes + 1
    /\ UNCHANGED <<srch, stack, ret, time, ctx, board_vars, picker_vars>>

TTProbe ==
    /\ nodes < MaxTTOps
    /\ \E key \in TTKeys, args \in TTProbeArgs :
          /\ ret' = probe(tt, key, args[1], args[2], args[3], args[4])
          /\ watch' = [op |-> "probe", key |-> key, saved |-> watch.saved]
    /\ nodes' = nodes + 1
    /\ UNCHANGED <<srch, stack, time, tt, ctx, board_vars, picker_vars>>

TTNewSearch ==
    /\ nodes < MaxTTOps
    /\ tt.generation < MaxTTGenerations
    /\ tt' = new_search(tt)
    /\ watch' = [op |-> "new_search", saved |-> watch.saved]
    /\ nodes' = nodes + 1
    /\ UNCHANGED <<srch, stack, ret, time, ctx, board_vars, picker_vars>>

NextTT == TTSave \/ TTProbe \/ TTNewSearch

SpecTT == InitTT /\ [][NextTT]_vars

\* ---------------------------------------------------------------- mate scores through the table

\* A score is written as alpha_beta writes it (score_to_tt at the node's ply,
\* then save) and read as alpha_beta reads it (probe, then score_from_tt at
\* the reader's ply).
MaxScorePly == 4
FarPly == 400
FarMate == 600
ScorePlies == 0..MaxScorePly \cup {FarPly}
MateDistances == 0..MaxScorePly \cup {FarMate}
PlainScores == {1 - MATE_THRESHOLD, DRAW_SCORE, 0, 7, MATE_THRESHOLD - 1}
ScoreKey == 1

InitScore ==
    /\ BoardIdle
    /\ PickerIdle
    /\ srch = [phase |-> "idle"]
    /\ stack = <<>>
    /\ ret = <<>>
    /\ nodes = 0
    /\ time = [allotted |-> FALSE, stop_signal |-> FALSE]
    /\ tt = TranspositionTable_new
    /\ ctx = <<>>
    /\ \E ply \in ScorePlies :
          \/ \E sign \in {-1, 1}, k \in MateDistances :
                watch = [op |-> "found", score |-> sign * (MATE_SCORE - (ply + k)), ply |-> ply]
          \/ \E score \in PlainScores :
                watch = [op |-> "found", score |-> score, ply |-> ply]

\* search.rs 527-528: tt.save(key, mv, score_to_tt(best_score, ply), ...)
ScoreSave ==
    /\ watch.op = "found"
    /\ \E depth \in TTDepths :
          tt' = save(tt, ScoreKey, NONE, score_to_tt(watch.score, watch.ply), depth, Exact, watch.ply)
    /\ watch' = [watch EXCEPT !.op = "stored"]
    /\ UNCHANGED <<srch, stack, ret, nodes, time, ctx, board_vars, picker_vars>>

\* search.rs 223-231: probe, then score_from_tt(raw_score, ply)
ScoreProbe ==
    /\ watch.op = "stored"
    /\ \E ply \in ScorePlies :
          LET hit == probe(tt, ScoreKey, 1, -INF, INF, ply)
          IN /\ hit # <<>>
             /\ ret' = <<score_from_tt(hit[2], ply)>>
             /\ watch' = [op |-> "read", score |-> watch.score, ply |-> watch.ply, at |-> ply]
    /\ UNCHANGED <<srch, stack, nodes, time, tt, ctx, board_vars, picker_vars>>

NextScore == ScoreSave \/ ScoreProbe

SpecScore == InitScore /\ [][NextScore]_vars

\* ---------------------------------------------------------------- searches on a table that is kept

\* alpha_beta called at the root with a table of the caller's, as
\* search_fixed_depth of tests/tt_move_ordering_tests.rs calls it: full
\* window, a new context, a new node counter, no time limit.  A first search
\* of some depth fills the table; the position is then searched on that table
\* and once more on a new table.
search_fixed_depth(depth) == <<ABFrame(<<>>, depth, 0, -INF, INF)>>

InitWarm ==
    /\ BoardIdle
    /\ PickerIdle
    /\ \E tree \in 1..MaxTree, filled \in 1..MaxDepth, depth \in 1..MaxDepth :
          /\ srch = [phase |-> "fill", tree |-> tree, depth |-> depth, warm |-> <<>>,
                     fresh |-> <<>>]
          /\ stack = search_fixed_depth(filled)
    /\ ret = [score |-> 0, mv |-> NONE]
    /\ nodes = 0
    /\ time = time_new(FALSE)
    /\ tt = tt_new
    /\ ctx = ctx_new
    /\ watch = WatchInit

\* The search on the table the first search left.
WarmSearch ==
    /\ srch.phase = "fill"
    /\ stack = <<>>
    /\ srch' = [srch EXCEPT !.phase = "warm"]
    /\ stack' = search_fixed_depth(srch.depth)
    /\ nodes' = 0
    /\ time' = time_new(FALSE)
    /\ ctx' = ctx_new
    /\ UNCHANGED <<ret, tt, watch, board_vars, picker_vars>>

\* The search on a new table.
FreshSearch ==
    /\ srch.phase = "warm"
    /\ stack = <<>>
    /\ srch' = [srch EXCEPT !.phase = "fresh", !.warm = <<ret>>]
    /\ stack' = search_fixed_depth(srch.depth)
    /\ nodes' = 0
    /\ time' = time_new(FALSE)
    /\ tt' = tt_new
    /\ ctx' = ctx_new
    /\ UNCHANGED <<ret, watch, board_vars, picker_vars>>

FreshReturned ==
    /\ srch.phase = "fresh"
    /\ stack = <<>>
    /\ srch' = [srch EXCEPT !.phase = "compared", !.fresh = <<ret>>]
    /\ UNCHANGED <<stack, ret, nodes, time, tt, ctx, watch, board_vars, picker_vars>>

NextWarm ==
    \/ WarmSearch
    \/ FreshSearch
    \/ FreshReturned
    \/ AlphaBetaEnter
    \/ AlphaBetaAfterQuiescence
    \/ AlphaBetaAfterNull
    \/ AlphaBetaPickMove
    \/ AlphaBetaAfterChild
    \/ QuiescenceEnter
    \/ QuiescencePickMove
    \/ QuiescenceAfterChild

SpecWarm == InitWarm /\ [][NextWarm]_vars

\* ---------------------------------------------------------------- the caller of search

\* The caller makes a table for the search, as the tests do
\* (`&mut TranspositionTable::new(512)`), and calls search one time after
\* another on the same position.  search as it is written has no table
\* parameter: it makes its own table, context and time manager (lines 548-551)
\* and drops them when it returns.  window.table is the caller's table.
MaxCalls == 2

InitCaller ==
    /\ scen = 0
    /\ board = <<>>
    /\ trail = <<>>
    /\ last = [op |-> "idle"]
    /\ window = [table |-> tt_new, calls |-> 1]
    /\ PickerIdle
    /\ \E tree \in 1..MaxTree, max_depth \in 1..MaxDepth : srch = search_new(tree, max_depth)
    /\ \E limit \in BOOLEAN : time = time_new(limit)
    /\ stack = <<>>
    /\ ret = [score |-> 0, mv |-> NONE]
    /\ nodes = 0
    /\ tt = tt_new
    /\ ctx = ctx_new
    /\ watch = WatchInit

\* search has returned and is called again with the same arguments.
SearchCalledAgain ==
    /\ srch.phase = "done"
    /\ window.calls < MaxCalls
    /\ window' = [window EXCEPT !.calls = @ + 1]
    /\ srch' = search_new(srch.tree, srch.max_depth)
    /\ time' = time_new(time.allotted)
    /\ stack' = <<>>
    /\ ret' = [score |-> 0, mv |-> NONE]
    /\ nodes' = 0
    /\ tt' = tt_new
    /\ ctx' = ctx_new
    /\ watch' = WatchInit
    /\ UNCHANGED <<scen, board, trail, last, picker_vars>>

NextCaller == NextSearch \/ SearchCalledAgain

SpecCaller == InitCaller /\ [][NextCaller]_vars

\* ---------------------------------------------------------------- searches deep enough for aspiration windows

\* search run to a depth beyond 4, where the window of an iteration is set
\* around the score of the iteration before, on trees whose score falls and
\* rises between iterations.
FirstAspirationTree == 5
LastAspirationTree == 7

InitAspiration ==
    /\ BoardIdle
    /\ PickerIdle
    /\ \E tree \in FirstAspirationTree..LastAspirationTree :
          srch = search_new(tree, Max(5, MaxDepth))
    /\ \E limit \in BOOLEAN : time = time_new(limit)
    /\ stack = <<>>
    /\ ret = [score |-> 0, mv |-> NONE]
    /\ nodes = 0
    /\ tt = tt_new
    /\ ctx = ctx_new
    /\ watch = WatchInit

SpecAspiration == InitAspiration /\ [][NextSearch]_vars

\* ---------------------------------------------------------------- depth and ply down one line of play

\* One line of play of alpha_beta from the root of an iteration: srch is the
\* node the line has reached, with its remaining depth, its ply and whether
\* its side to move is in check.  The root is entered at ply 0 with the depth
\* of an iteration, 1..max_depth, for the max_depth the UCI layer passes:
\* 64 unless `go` names one, 100 for `go infinite`.
UCI_DEFAULT_DEPTH == 64
UCI_INFINITE_DEPTH == 100
MaxLinePly == 66
\* move_count / 20 at line 399, for the longest move lists (218 moves).
MaxLateMoveTerm == 10

\* Line 251: a node at depth <= 0 that is not in check is answered by
\* quiescence; every other node that is not cut off earlier builds its picker
\* from ctx.killer_moves[ply] (line 315).
reaches_move_loop(node) == ~(node.depth <= 0 /\ ~node.in_check)

check_extension(node) == IF node.in_check THEN 1 ELSE 0

\* The values r can take at lines 384-417 for some move count, history and
\* window.
lmr_reductions(node) ==
    IF node.depth > LMR_MIN_DEPTH /\ ~node.in_check
    THEN 0..Min(1 + (node.depth \div 8) + MaxLateMoveTerm, node.depth - 2)
    ELSE {0}

LineChild(node, depth, checked) ==
    [node EXCEPT !.depth = depth, !.ply = @ + 1, !.in_check = checked]

InitLine ==
    /\ BoardIdle
    /\ PickerIdle
    /\ \E max_depth \in {UCI_DEFAULT_DEPTH, UCI_INFINITE_DEPTH}, depth \in 1..UCI_INFINITE_DEPTH,
          checked \in BOOLEAN :
          /\ depth <= max_depth
          /\ srch = [phase |-> "line", max_depth |-> max_depth, depth |-> depth, ply |-> 0,
                     in_check |-> checked]
    /\ stack = <<>>
    /\ ret = <<>>
    /\ nodes = 0
    /\ time = [allotted |-> FALSE, stop_signal |-> FALSE]
    /\ tt = <<>>
    /\ ctx = <<>>
    /\ watch = [op |-> "root"]

LineStep(op, child) ==
    /\ srch.ply < MaxLinePly
    /\ srch' = child
    /\ watch' = [op |-> op]
    /\ UNCHANGED <<stack, ret, nodes, time, tt, ctx, board_vars, picker_vars>>

\* Lines 286-302: the null-move search.
LineNullMove ==
    /\ srch.depth >= 4
    /\ ~srch.in_check
    /\ LineStep("null", LineChild(srch, srch.depth - (IF srch.depth > 6 THEN 3 ELSE 2) - 1, FALSE))

\* Lines 366-378 and 452-465: the first move and the full-window re-search.
LineFullWindow ==
    /\ reaches_move_loop(srch)
    /\ \E checked \in BOOLEAN :
          LineStep("full", LineChild(srch, srch.depth - 1 + check_extension(srch), checked))

\* Lines 419-431: the zero-window search of a later move, reduced by r.
LineZeroWindow ==
    /\ reaches_move_loop(srch)
    /\ \E checked \in BOOLEAN, r \in lmr_reductions(srch) :
          LineStep("reduced", LineChild(srch, srch.depth - 1 - r, checked))

\* Lines 435-450: the zero-window re-search at depth - 1 after a reduction.
LineResearch ==
    /\ reaches_move_loop(srch)
    /\ lmr_reductions(srch) # {0}
    /\ \E checked \in BOOLEAN : LineStep("research", LineChild(srch, srch.depth - 1, checked))

NextLine == LineNullMove \/ LineFullWindow \/ LineZeroWindow \/ LineResearch

SpecLine == InitLine /\ [][NextLine]_vars

\* ---------------------------------------------------------------- go: the time allotted to a search

\* cli.rs handle_go, after the book probe: the parameters parsed from the
\* command (an absent one is <<>>, a present one <<ms>>), and the depth and
\* time limit handed to search.  Times are in milliseconds.
ClockTimes == {0, 9, 12, 49, 50, 66, 600, 2400, 3000, 6000, 60000}
Increments == {0, 30, 2000}
MovesToGo == {<<>>, <<1>>, <<2>>, <<30>>}
MoveTimes == {<<>>, <<0>>, <<1000>>}

Optional(S) == {<<>>} \cup {<<x>> : x \in S}

\* Lines 248-249.
safety_buffer(t) == Min((t * 15) \div 100, 500)
usable_time(t) == Max(t - safety_buffer(t), 0)

\* Lines 253-273.
tiered_alloc(usable, my_inc, movestogo) ==
    IF movestogo # <<>> THEN usable \div Max(movestogo[1], 2) + (my_inc * 3) \div 4
    ELSE IF usable > 5000 THEN usable \div 40 + (my_inc * 9) \div 10
    ELSE IF usable > 2000 THEN usable \div 30 + (my_inc * 3) \div 4
    ELSE IF usable > 500 THEN usable \div 20 + my_inc \div 2
    ELSE my_inc \div 2 + 20

\* Lines 275-287: the hard cap, the cap at the usable time, the 10 ms minimum.
capped_alloc(alloc, usable) ==
    LET capped == Min(Min(alloc, usable \div 5), usable)
    IN  IF capped < 10 /\ usable >= 10 THEN 10 ELSE capped

\* Lines 233-291.
go_time_limit(go, side_to_move) ==
    IF go.movetime # <<>> THEN go.movetime
    ELSE LET my_time == IF side_to_move = White THEN go.wtime ELSE go.btime
             my_inc == IF side_to_move = White THEN go.winc ELSE go.binc
         IN  IF my_time = <<>> THEN <<>>
             ELSE <<capped_alloc(tiered_alloc(usable_time(my_time[1]), my_inc, go.movestogo),
                                 usable_time(my_time[1]))>>

go_depth(go) == IF go.infinite THEN UCI_INFINITE_DEPTH ELSE UCI_DEFAULT_DEPTH

InitGo ==
    /\ BoardIdle
    /\ PickerIdle
    /\ \E wtime \in Optional(ClockTimes), btime \in Optional(ClockTimes),
          winc \in Increments, binc \in Increments,
          movestogo \in MovesToGo, movetime \in MoveTimes,
          infinite \in BOOLEAN, side \in Colors :
          srch = [phase |-> "go", side_to_move |-> side,
                  go |-> [wtime |-> wtime, btime |-> btime, winc |-> winc, binc |-> binc,
                          movestogo |-> movestogo, movetime |-> movetime, infinite |-> infinite]]
    /\ stack = <<>>
    /\ ret = <<>>
    /\ nodes = 0
    /\ time = [allotted |-> FALSE, stop_signal |-> FALSE]
    /\ tt = <<>>
    /\ ctx = <<>>
    /\ watch = [op |-> "command"]

\* handle_go up to its call of search(board, tables, depth, time_limit).
HandleGo ==
    /\ srch.phase = "go"
    /\ srch' = [phase |-> "search", side_to_move |-> srch.side_to_move, go |-> srch.go,
                depth |-> go_depth(srch.go),
                time_limit |-> go_time_limit(srch.go, srch.side_to_move)]
    /\ watch' = [op |-> "go"]
    /\ UNCHANGED <<stack, ret, nodes, time, tt, ctx, board_vars, picker_vars>>

NextGo == HandleGo

SpecGo == InitGo /\ [][NextGo]_vars

\* ---------------------------------------------------------------- position: the UCI position command

\* cli.rs main and handle_position.  board is the engine's current board; a
\* command names a FEN (a scenario) and a list of move strings.  A string is
\* the sequence of its characters' code points: str.len() counts the bytes of
\* its UTF-8 encoding, chars[i] indexes its characters.
PositionScenarios == {1, 3, 10}
MaxMoveList == 2

utf8_len(c) == IF c < 128 THEN 1 ELSE IF c < 2048 THEN 2 ELSE IF c < 65536 THEN 3 ELSE 4

RECURSIVE str_len(_)
str_len(str) == IF str = <<>> THEN 0 ELSE utf8_len(Head(str)) + str_len(Tail(str))

\* Display of a Square: file letter, rank digit.
square_text(s) == <<97 + FileOf(s), 49 + RankOf(s)>>

\* Move::to_uci.
to_uci(mv) ==
    square_text(mv.from) \o square_text(mv.to) \o
        (CASE mv.promotion = Queen -> <<113>>
           [] mv.promotion = Rook -> <<114>>
           [] mv.promotion = Bishop -> <<98>>
           [] mv.promotion = Knight -> <<110>>
           [] OTHER -> <<>>)

\* (c as u8).wrapping_sub(base).
wrapping_sub_u8(c, base) == ((c % 256) - base + 256) % 256

ParseNone == [kind |-> "none"]
ParsePanic == [kind |-> "panic"]

\* parse_uci_move: an index past the end of chars panics.
parse_uci_move(b, str) ==
    IF str_len(str) < 4 THEN ParseNone
    ELSE IF Len(str) < 4 THEN ParsePanic
    ELSE LET from_file == wrapping_sub_u8(str[1], 97)
             from_rank == wrapping_sub_u8(str[2], 49)
             to_file == wrapping_sub_u8(str[3], 97)
             to_rank == wrapping_sub_u8(str[4], 49)
         IN  IF from_file > 7 \/ from_rank > 7 \/ to_file > 7 \/ to_rank > 7 THEN ParseNone
             ELSE IF str_len(str) >= 5 /\ Len(str) < 5 THEN ParsePanic
             ELSE LET promo_piece ==
                          IF str_len(str) >= 5
                          THEN CASE str[5] = 113 -> Queen
                                 [] str[5] = 114 -> Rook
                                 [] str[5] = 98 -> Bishop
                                 [] str[5] = 110 -> Knight
                                 [] OTHER -> NONE
                          ELSE NONE
                      found == {mv \in generate_legal(b) :
                                   /\ mv.from = from_rank * 8 + from_file
                                   /\ mv.to = to_rank * 8 + to_file
                                   /\ mv.promotion = promo_piece}
                  IN  IF found = {} THEN ParseNone
                      ELSE [kind |-> "some", mv |-> CHOOSE mv \in found : TRUE]

\* handle_position from its move loop on: Some(board), None after the
\* diagnostic "Invalid move: <text>", or a panic.
RECURSIVE apply_moves(_, _)
apply_moves(b, strs) ==
    IF strs = <<>> THEN [kind |-> "some", board |-> b]
    ELSE LET parsed == parse_uci_move(b, Head(strs))
         IN  IF parsed.kind = "some"
             THEN apply_moves(make_move_basic(b, parsed.mv).board, Tail(strs))
             ELSE IF parsed.kind = "none" THEN [kind |-> "none", diagnostic |-> <<Head(strs)>>]
             ELSE ParsePanic

handle_position(cmd) == apply_moves(ScenarioBoard(cmd.fen), cmd.moves)

\* The move strings tried on a board: the text of every legal move, that text
\* with a character appended or with its first character replaced by a
\* two-byte one of the same low byte, and four fixed strings: "a2", two
\* two-byte characters, "0000", "a1a1".
LegalTexts(b) == {to_uci(mv) : mv \in generate_legal(b)}

BadTexts(b) ==
    {<<97, 50>>, <<233, 233>>, <<48, 48, 48, 48>>, <<97, 49, 97, 49>>}
        \cup {t \o <<120>> : t \in LegalTexts(b)}
        \cup {<<t[1] + 256>> \o Tail(t) : t \in LegalTexts(b)}

MoveLists(b) ==
    {<<>>} \cup {<<t>> : t \in LegalTexts(b) \cup BadTexts(b)}
           \cup UNION {{<<to_uci(mv), u>> :
                           u \in LegalTexts(make_move_basic(b, mv).board)
                                    \cup BadTexts(make_move_basic(b, mv).board)} :
                        mv \in generate_legal(b)}
           \cup {<<t, u>> : t \in BadTexts(b), u \in LegalTexts(b)}

InitPosition ==
    /\ PickerIdle
    /\ scen \in PositionScenarios
    /\ board = ScenarioBoard(scen)
    /\ trail = <<>>
    /\ last = [op |-> "init", mv |-> Move(0, 0, Pawn, NONE, QUIET_MOVE)]
    /\ window = <<>>
    /\ srch = [phase |-> "uci"]
    /\ stack = <<>>
    /\ ret = <<>>
    /\ nodes = 0
    /\ time = [allotted |-> FALSE, stop_signal |-> FALSE]
    /\ tt = <<>>
    /\ ctx = <<>>
    /\ watch = [op |-> "start"]

\* main on a "position" line: the board is replaced when handle_position
\* returns Some.
PositionDone(cmd, r) ==
    /\ board' = IF r.kind = "some" THEN r.board ELSE board
    /\ srch' = [phase |-> IF r.kind = "panic" THEN "panicked" ELSE "uci"]
    /\ watch' = [op |-> "position", cmd |-> cmd, before |-> board,
                 diagnostic |-> IF r.kind = "none" THEN r.diagnostic ELSE <<>>]

PositionCommand ==
    /\ srch.phase = "uci"
    /\ watch.op = "start"
    /\ \E fen \in PositionScenarios :
          \E moves \in MoveLists(ScenarioBoard(fen)) :
             /\ Len(moves) <= MaxMoveList
             /\ PositionDone([fen |-> fen, moves |-> moves],
                             handle_position([fen |-> fen, moves |-> moves]))
    /\ UNCHANGED <<scen, trail, last, window, stack, ret, nodes, time, tt, ctx, picker_vars>>

NextPosition == PositionCommand

SpecPosition == InitPosition /\ [][NextPosition]_vars

\* ---------------------------------------------------------------- make and undo inside search

\* The calls of make_move_basic, undo_move_basic, make_null_move and
\* undo_null_move that search reaches, on real boards: alpha_beta, quiescence
\* and the picker's is_legal_move, with every return, continue and break
\* between them.  What a branch depends on (scores, bounds, table hits, the
\* clock) is left open: each branch of the code can be taken wherever its
\* tests on the board allow it.  board is the one board all frames share;
\* a frame keeps its own `undo`.  trail lists the makes not yet undone, each
\* with the board before it.
LifoScenarios == {3, 10}
MaxLifoPly == 2

LifoFrame(fn, ply) == [fn |-> fn, pc |-> "enter", ply |-> ply, mv |-> <<>>, undo |-> <<>>]

LifoTop == stack[Len(stack)]

LifoAt(fns, pcs) == stack # <<>> /\ LifoTop.fn \in fns /\ LifoTop.pc \in pcs

LifoSet(f) == [stack EXCEPT ![Len(stack)] = f]

LifoPop == SubSeq(stack, 1, Len(stack) - 1)

\* The moves a picker can hand to is_legal_move on board b: the generated
\* pseudo-legal moves (captures only in quiescence) and, in alpha_beta, a
\* hash move or killer that passes is_pseudo_legal.
LifoProbed(fn, b) ==
    IF fn = "quiescence"
    THEN {generate_pseudo_legal_captures(b)[i] : i \in 1..Len(generate_pseudo_legal_captures(b))}
    ELSE generate_pseudo_legal(b) \cup {mv \in PickerCandidates(scen) : is_pseudo_legal(b, mv)}

InitLifo ==
    /\ PickerIdle
    /\ scen \in LifoScenarios
    /\ board = ScenarioBoard(scen)
    /\ trail = <<>>
    /\ last = [op |-> "init"]
    /\ window = <<>>
    /\ srch = [phase |-> "searching"]
    /\ stack = <<LifoFrame("alpha_beta", 0)>>
    /\ ret = <<>>
    /\ nodes = 0
    /\ time = [allotted |-> TRUE, stop_signal |-> FALSE]
    /\ tt = <<>>
    /\ ctx = <<>>
    /\ watch = [before |-> board, null_made |-> FALSE, deepest |-> 0]

LifoKeep == UNCHANGED <<scen, window, ret, nodes, tt, ctx, picker_vars>>

\* A make: the board changes, the frame keeps the undo.
LifoMade(r, f) ==
    /\ board' = r.board
    /\ trail' = Append(trail, [undo |-> r.undo, pre |-> board])
    /\ last' = [op |-> "make"]
    /\ stack' = LifoSet([f EXCEPT !.undo = <<r.undo>>])

\* An undo with the frame's own undo; `last` keeps whether it was the undo
\* of the newest make and the board before that make.
LifoUndone(b, f) ==
    /\ board' = b
    /\ last' = [op |-> "undo", newest |-> trail # <<>> /\ trail[Len(trail)].undo = LifoTop.undo[1],
                pre |-> IF trail # <<>> THEN <<trail[Len(trail)].pre>> ELSE <<>>]
    /\ trail' = IF trail = <<>> THEN <<>> ELSE SubSeq(trail, 1, Len(trail) - 1)
    /\ stack' = LifoSet([f EXCEPT !.undo = <<>>])

\* A return of the top frame; the last one ends the search.
LifoReturn ==
    /\ stack' = LifoPop
    /\ srch' = [phase |-> IF Len(stack) = 1 THEN "returned" ELSE "searching"]
    /\ UNCHANGED <<board, trail, last, time, watch>>

LifoGoto(pc) ==
    /\ stack' = LifoSet([LifoTop EXCEPT !.pc = pc])
    /\ UNCHANGED <<board, trail, last, time, watch, srch>>

LifoCall(pc, child) ==
    /\ stack' = Append(LifoSet([LifoTop EXCEPT !.pc = pc]), child)
    /\ watch' = [watch EXCEPT !.deepest = Max(@, child.ply)]
    /\ UNCHANGED <<board, trail, last, time, srch>>

\* check_time has raised the stop signal (search.rs 199-201, 141-143).
LifoStopRaised ==
    /\ stack # <<>>
    /\ ~time.stop_signal
    /\ time' = [time EXCEPT !.stop_signal = TRUE]
    /\ UNCHANGED <<board, trail, last, stack, srch, watch>>
    /\ LifoKeep

\* alpha_beta 203-270 and quiescence 122-130: the returns before any move.
LifoReturnEarly ==
    /\ LifoAt({"alpha_beta", "quiescence"}, {"enter"})
    /\ LifoReturn
    /\ LifoKeep

\* alpha_beta 251-254: quiescence at the same ply, its score returned.
LifoDropToQuiescence ==
    /\ LifoAt({"alpha_beta"}, {"enter"})
    /\ ~in_check(board, board.side_to_move)
    /\ LifoCall("after_quiescence", LifoFrame("quiescence", LifoTop.ply))
    /\ LifoKeep

LifoAfterQuiescence ==
    /\ LifoAt({"alpha_beta"}, {"after_quiescence"})
    /\ LifoReturn
    /\ LifoKeep

\* alpha_beta 276-299: make_null_move and the reduced search.
LifoMakeNull ==
    /\ LifoAt({"alpha_beta"}, {"enter"})
    /\ LifoTop.ply < MaxLifoPly
    /\ ~in_check(board, board.side_to_move)
    /\ has_major_pieces(board, board.side_to_move)
    /\ LET r == make_null_move(board)
       IN  /\ board' = r.board
           /\ trail' = Append(trail, [undo |-> r.undo, pre |-> board])
           /\ last' = [op |-> "make"]
           /\ stack' = Append(LifoSet([LifoTop EXCEPT !.pc = "after_null", !.undo = <<r.undo>>]),
                              LifoFrame("alpha_beta", LifoTop.ply + 1))
    /\ watch' = [watch EXCEPT !.null_made = TRUE, !.deepest = Max(@, LifoTop.ply + 1)]
    /\ UNCHANGED <<time, srch>>
    /\ LifoKeep

\* alpha_beta 301-302: undo_null_move.
LifoUndoNull ==
    /\ LifoAt({"alpha_beta"}, {"after_null"})
    /\ LifoUndone(undo_null_move(board, LifoTop.undo[1]), [LifoTop EXCEPT !.pc = "null_undone"])
    /\ UNCHANGED <<time, srch, watch>>
    /\ LifoKeep

\* alpha_beta 304-311: the null-move cutoff, not taken after a stop.
LifoNullCutoff ==
    /\ LifoAt({"alpha_beta"}, {"null_undone"})
    /\ ~time.stop_signal
    /\ LifoReturn
    /\ LifoKeep

\* alpha_beta 315 and quiescence 136: the picker is built, the loop begins.
LifoEnterLoop ==
    /\ \/ LifoAt({"alpha_beta"}, {"enter", "null_undone"})
       \/ LifoAt({"quiescence"}, {"enter"})
    /\ LifoGoto("loop")
    /\ LifoKeep

\* picker.next, is_legal_move 428-431: a castling move is judged without a
\* make.
LifoProbeCastling ==
    /\ LifoAt({"alpha_beta", "quiescence"}, {"loop"})
    /\ \E mv \in LifoProbed(LifoTop.fn, board) :
          /\ is_castling(mv)
          /\ stack' = LifoSet([LifoTop EXCEPT !.pc = IF is_legal_castling(board, mv) THEN "picked" ELSE "loop",
                                              !.mv = IF is_legal_castling(board, mv) THEN <<mv>> ELSE <<>>])
    /\ UNCHANGED <<board, trail, last, time, watch, srch>>
    /\ LifoKeep

\* is_legal_move 432-433: the probed move is made.
LifoProbeMake ==
    /\ LifoAt({"alpha_beta", "quiescence"}, {"loop"})
    /\ LifoTop.ply < MaxLifoPly
    /\ \E mv \in LifoProbed(LifoTop.fn, board) :
          /\ ~is_castling(mv)
          /\ LifoMade(make_move_basic(board, mv), [LifoTop EXCEPT !.pc = "probe", !.mv = <<mv>>])
    /\ UNCHANGED <<time, srch, watch>>
    /\ LifoKeep

\* is_legal_move 434-436: the mover's king is tested, the move undone; the
\* picker returns a legal move and goes on to its next move otherwise.
LifoProbeUndo ==
    /\ LifoAt({"alpha_beta", "quiescence"}, {"probe"})
    /\ LET illegal == in_check(board, opposite(board.side_to_move))
       IN  LifoUndone(undo_move_basic(board, LifoTop.undo[1]),
                      [LifoTop EXCEPT !.pc = IF illegal THEN "loop" ELSE "picked",
                                      !.mv = IF illegal THEN <<>> ELSE @])
    /\ UNCHANGED <<time, srch, watch>>
    /\ LifoKeep

\* The picker is exhausted, or alpha_beta 358 breaks out of the loop:
\* the function returns (504-536, 182).
LifoLoopEnds ==
    /\ \/ LifoAt({"alpha_beta", "quiescence"}, {"loop"})
       \/ LifoAt({"alpha_beta"}, {"picked"})
    /\ LifoReturn
    /\ LifoKeep

\* alpha_beta 340, quiescence 162 and 169: continue with the next move.
LifoSkipMove ==
    /\ LifoAt({"alpha_beta", "quiescence"}, {"picked"})
    /\ stack' = LifoSet([LifoTop EXCEPT !.pc = "loop", !.mv = <<>>])
    /\ UNCHANGED <<board, trail, last, time, watch, srch>>
    /\ LifoKeep

\* Faulty variant: the stop signal is answered between the make and the undo.
LifoStoppedBeforeUndo ==
    /\ LifoAt({"alpha_beta", "quiescence"}, {"after_child"})
    /\ time.stop_signal
    /\ LifoReturn
    /\ LifoKeep

\* quiescence 145-147: the stop signal is seen before the move is made.
LifoQuiescenceStopped ==
    /\ LifoAt({"quiescence"}, {"picked"})
    /\ time.stop_signal
    /\ LifoReturn
    /\ LifoKeep

\* alpha_beta 363-378, quiescence 172-173: make_move_basic and the first
\* search of the child.
LifoMakeMove ==
    /\ LifoAt({"alpha_beta", "quiescence"}, {"picked"})
    /\ LifoTop.fn = "quiescence" => ~time.stop_signal
    /\ LET r == make_move_basic(board, LifoTop.mv[1])
       IN  /\ board' = r.board
           /\ trail' = Append(trail, [undo |-> r.undo, pre |-> board])
           /\ last' = [op |-> "make"]
           /\ stack' = Append(LifoSet([LifoTop EXCEPT !.pc = "after_child", !.undo = <<r.undo>>]),
                              LifoFrame(LifoTop.fn, LifoTop.ply + 1))
    /\ watch' = [watch EXCEPT !.deepest = Max(@, LifoTop.ply + 1)]
    /\ UNCHANGED <<time, srch>>
    /\ LifoKeep

\* alpha_beta 435-465: the child is searched again before the undo.
LifoSearchAgain ==
    /\ LifoAt({"alpha_beta"}, {"after_child"})
    /\ LifoCall("after_child", LifoFrame("alpha_beta", LifoTop.ply + 1))
    /\ LifoKeep

\* alpha_beta 468, quiescence 174: undo_move_basic.
LifoUndoMove ==
    /\ LifoAt({"alpha_beta", "quiescence"}, {"after_child"})
    /\ LifoUndone(undo_move_basic(board, LifoTop.undo[1]), [LifoTop EXCEPT !.pc = "undone", !.mv = <<>>])
    /\ UNCHANGED <<time, srch, watch>>
    /\ LifoKeep

\* alpha_beta 471-473 and 481-500, quiescence 176-178: the return after a
\* stop and the cutoff.
LifoReturnAfterMove ==
    /\ LifoAt({"alpha_beta", "quiescence"}, {"undone"})
    /\ LifoReturn
    /\ LifoKeep

\* The loop goes on; alpha_beta has returned at 472 if the stop signal is up.
LifoNextMove ==
    /\ LifoAt({"alpha_beta", "quiescence"}, {"undone"})
    /\ LifoTop.fn = "alpha_beta" => ~time.stop_signal
    /\ LifoGoto("loop")
    /\ LifoKeep

NextLifo ==
    \/ LifoStopRaised
    \/ LifoReturnEarly
    \/ LifoDropToQuiescence
    \/ LifoAfterQuiescence
    \/ LifoMakeNull
    \/ LifoUndoNull
    \/ LifoNullCutoff
    \/ LifoEnterLoop
    \/ LifoProbeCastling
    \/ LifoProbeMake
    \/ LifoProbeUndo
    \/ LifoLoopEnds
    \/ LifoSkipMove
    \/ LifoQuiescenceStopped
    \/ LifoMakeMove
    \/ LifoSearchAgain
    \/ LifoUndoMove
    \/ LifoReturnAfterMove
    \/ LifoNextMove

SpecLifo == InitLifo /\ [][NextLifo]_vars

\* ---------------------------------------------------------------- C1

\* C1: after every make_move_basic and every undo_move_basic the incrementally
\* maintained board.zobrist equals the hash recomputed from scratch.
ZobristParity == board.zobrist = compute_zobrist_full(board)

\* A double push has just set an en-passant square that enters the hash.
ZobristParityWitness ==
    /\ last.op = "make"
    /\ last.mv.flags = DOUBLE_PAWN_PUSH
    /\ EpKeys(board) # {}

\* ---------------------------------------------------------------- C2

\* C2: undo_move_basic applied after make_move_basic restores every field of
\* the Board (bitboards, occupancies, mailbox, side, rights, en-passant square,
\* clocks, zobrist and the whole history) to its value before the move.
UndoRestoresBoard ==
    [][Len(trail') < Len(trail) => board' = trail[Len(trail)].pre]_vars

\* A capture that truncated a history of two or more keys has been undone.
UndoRestoresBoardWitness ==
    /\ last.op = "undo"
    /\ is_capture(last.mv)
    /\ Len(board.history) >= 2

\* ---------------------------------------------------------------- C3

\* C3: search returns the (score, best_move) of the last iteration that ran to
\* completion with the stop signal down; the result of an iteration in which
\* the signal was raised is never returned.
SearchReturnsLastCompleted ==
    srch.phase = "done" =>
        search_result(srch) = IF watch.completed = <<>>
                              THEN [score |-> 0, mv |-> NONE]
                              ELSE watch.completed[1]

\* A search stopped in a later iteration has returned the move of an earlier,
\* completed one, which is not what the stopped root call returned.
SearchReturnsLastCompletedWitness ==
    /\ srch.phase = "done"
    /\ time.stop_signal
    /\ watch.completed # <<>>
    /\ search_result(srch).mv # NONE
    /\ ret # search_result(srch)

\* ---------------------------------------------------------------- C4

\* C4: once stop_signal is up no transposition-table save, killer update or
\* history update happens, and an alpha_beta frame that returns with the signal
\* up (other than one handing back a quiescence score) returns (0, None).
NoCommitAfterStop ==
    [][/\ time.stop_signal => (tt' = tt /\ ctx' = ctx)
       /\ (time'.stop_signal /\ Len(stack') < Len(stack) /\ ~IsQ(Top) /\ Top.pc # "ab_after_q")
             => ret' = [score |-> 0, mv |-> NONE]]_vars

\* With the signal up, two or more alpha_beta frames have returned past a
\* child call, with entries of earlier iterations in the table.
NoCommitAfterStopWitness ==
    /\ time.stop_signal
    /\ watch.unwound >= 2
    /\ \E i \in 0..(TTCapacity - 1) : tt.entries[i].key # <<NONE>>
    /\ \E p \in 0..(KILLER_PLIES - 1) : ctx.killer_moves[p][1] # NONE

\* ---------------------------------------------------------------- C5

\* C5: after stop_signal is raised the node counter advances by at most one
\* per quiescence frame that was below the raising frame (at most
\* MAX_Q_SEARCH_DEPTH), and the stack never grows beyond its height at that time.
StopBoundsNodes ==
    time.stop_signal =>
        /\ nodes - watch.stop_nodes <= Max(watch.stop_qframes - 1, 0)
        /\ watch.stop_qframes <= MAX_Q_SEARCH_DEPTH + 1
        /\ Len(stack) <= watch.stop_height

\* The signal was raised two or more quiescence frames deep, a frame below
\* counted one more node, and search has returned.
StopBoundsNodesWitness ==
    /\ time.stop_signal
    /\ watch.stop_qframes >= 2
    /\ nodes > watch.stop_nodes
    /\ srch.phase = "done"

\* ---------------------------------------------------------------- C6

\* C6: check_time is polled every 64 nodes: between two consecutive
\* check_time calls the shared node counter advances by at most 64.
CheckTimeEvery64 == watch.check_gap <= 64

\* ---------------------------------------------------------------- C7

\* C7: after make_move_basic of a capture, a pawn move or a promotion the
\* history holds exactly the pre-move key; after any other move it is the
\* previous history with the pre-move key appended.
HistoryAfterMake ==
    last.op = "make" =>
        LET pre == trail[Len(trail)].pre
        IN board.history = IF ResetsHistory(pre, last.mv)
                           THEN <<pre.zobrist>>
                           ELSE Append(pre.history, pre.zobrist)

\* An irreversible move has just cut a history of two or more keys to one.
HistoryAfterMakeWitness ==
    /\ last.op = "make"
    /\ ResetsHistory(trail[Len(trail)].pre, last.mv)
    /\ Len(trail[Len(trail)].pre.history) >= 2
    /\ Len(board.history) = 1

\* ---------------------------------------------------------------- C8

\* C8: repetition_count() is the number of occurrences of the current position
\* since the last capture, pawn move or promotion, the current one included.
RepetitionCountExact ==
    repetition_count(board) = Cardinality({i \in 1..Len(window) : window[i] = PosId(board)})

\* ---------------------------------------------------------------- C9

\* C9: position_status reports the first condition that applies in the order
\* fivefold, 75-move, insufficient material, threefold, fifty-move, and only
\* then checkmate / stalemate / in play.
StatusPriority ==
    LET st == position_status(board)
        five == repetition_count(board) >= 5
        seventyfive == board.halfmove_clock >= 150
        dead == is_insufficient_material(board)
        three == is_threefold(board)
        fifty == board.halfmove_clock >= 100
        nomove == generate_legal(board) = {}
        check == in_check(board, board.side_to_move)
    IN /\ five => st = DrawFivefold
       /\ (~five /\ seventyfive) => st = DrawSeventyFiveMove
       /\ (~five /\ ~seventyfive /\ dead) => st = DrawDeadPosition
       /\ (~five /\ ~seventyfive /\ ~dead /\ three) => st = DrawThreefold
       /\ (~five /\ ~seventyfive /\ ~dead /\ ~three /\ fifty) => st = DrawFiftyMove
       /\ (~five /\ ~seventyfive /\ ~dead /\ ~three /\ ~fifty) =>
             st = IF nomove THEN (IF check THEN Checkmate ELSE Stalemate) ELSE InPlay

\* Threefold repetition and the fifty-move count hold together, with material
\* to mate: the status is the threefold draw.
StatusPriorityWitness ==
    /\ is_threefold(board)
    /\ repetition_count(board) < 5
    /\ board.halfmove_clock >= 100
    /\ ~is_insufficient_material(board)
    /\ position_status(board) = DrawThreefold

\* ---------------------------------------------------------------- C10

HomeCorner(right) ==
    CASE right = CASTLE_WK -> 7 [] right = CASTLE_WQ -> 0
      [] right = CASTLE_BK -> 63 [] right = CASTLE_BQ -> 56

RightColor(right) == IF right \in {CASTLE_WK, CASTLE_WQ} THEN White ELSE Black

\* The move takes the right away: its colour's king moves, a rook of its
\* colour leaves the home corner, or a rook of its colour is captured there.
ClearsRight(pre, mv, right) ==
    \/ pre.piece_on_sq[mv.from] = RightColor(right) * 8 + King
    \/ (mv.from = HomeCorner(right) /\ pre.piece_on_sq[mv.from] = RightColor(right) * 8 + Rook)
    \/ (mv.to = HomeCorner(right) /\ pre.piece_on_sq[mv.to] = RightColor(right) * 8 + Rook)

\* C10: a make_move_basic never adds a castling right, and clears a right when
\* the king moves, the rook leaves the corner or the rook is captured on it.
CastlingRightsOnlyShrink ==
    [][Len(trail') > Len(trail) =>
          /\ board'.castling_rights \subseteq board.castling_rights
          /\ \A right \in {CASTLE_WK, CASTLE_WQ, CASTLE_BK, CASTLE_BQ} :
                ClearsRight(board, last'.mv, right) => right \notin board'.castling_rights]_vars

\* The white rook is back on h1 with the king on e1, and the kingside right
\* it gave up by leaving stays cleared.
CastlingRightsOnlyShrinkWitness ==
    /\ last.op = "make"
    /\ Len(trail) >= 3
    /\ board.piece_on_sq[7] = White * 8 + Rook
    /\ board.piece_on_sq[4] = White * 8 + King
    /\ CASTLE_WK \in ScenarioBoard(scen).castling_rights
    /\ trail[1].mv.from = 7
    /\ CASTLE_WK \notin board.castling_rights

\* ---------------------------------------------------------------- C11

\* C11: make_null_move flips the side, clears the en-passant square, pushes
\* the pre-null key onto history, leaves castling rights and halfmove clock
\* alone and keeps zobrist equal to the full recompute; undo_null_move puts
\* side, en-passant square, zobrist, halfmove clock and history back to their
\* values before the null move, whatever was made and undone in between.
NullMoveRoundTrip ==
    [][/\ last'.op = "null" =>
            /\ board'.side_to_move = opposite(board.side_to_move)
            /\ board'.en_passant = NONE
            /\ board'.history = Append(board.history, board.zobrist)
            /\ board'.castling_rights = board.castling_rights
            /\ board'.halfmove_clock = board.halfmove_clock
            /\ board'.zobrist = compute_zobrist_full(board')
       /\ last'.op = "undo_null" =>
            LET pre == trail[Len(trail)].pre
            IN /\ board'.side_to_move = pre.side_to_move
               /\ board'.en_passant = pre.en_passant
               /\ board'.zobrist = pre.zobrist
               /\ board'.halfmove_clock = pre.halfmove_clock
               /\ board'.history = pre.history]_vars

\* A null move made with a hashed en-passant square has been undone after a
\* capture was made and undone above it.
NullMoveRoundTripWitness ==
    /\ last.op = "undo_null"
    /\ is_capture(last.mv)
    /\ EpKeys(board) # {}

\* ---------------------------------------------------------------- C12

\* C12: once a picker created with captures_only = false has returned None,
\* the moves it returned, compared by from, to and promotion, are the moves
\* of generate_legal for the position, whatever hash move and killers it was
\* given.
PickerYieldsLegalSet ==
    (picker # <<>> /\ picker.stage = "Done" /\ ~picker.captures_only)
        => Triples(PickedSet) = Triples(generate_legal(board))

\* ---------------------------------------------------------------- C13

\* C13: one picker never returns two moves with the same from, to and
\* promotion, whatever hash move and killers it was given.
PickerNoDuplicates ==
    \A i, j \in 1..Len(picked) : Triple(picked[i]) = Triple(picked[j]) => i = j

\* ---------------------------------------------------------------- C14

\* The captures-only run: no killer or quiet stage is entered, every move
\* returned is a capture or a promotion, and at the end the moves returned
\* are the legal captures and promotions of the position.
CapturesOnlyRun ==
    /\ picker.stage \in {"HashMove", "GenerateCaptures", "GoodCaptures", "BadCaptures", "Done"}
    /\ picker.quiets = <<>>
    /\ \A mv \in PickedSet : is_capture(mv) \/ is_promotion(mv)
    /\ picker.stage = "Done" =>
          Triples(PickedSet)
            = Triples({mv \in generate_legal(board) : is_capture(mv) \/ is_promotion(mv)})

SavedSlot == watch'.key % TTSlots

SavedEntryWritten ==
    /\ tt'.entries[SavedSlot].key = watch'.key
    /\ tt'.entries[SavedSlot].score = Max(-32000, Min(32000, watch'.score))
    /\ tt'.entries[SavedSlot].depth = watch'.depth
    /\ tt'.entries[SavedSlot].bound = watch'.bound
    /\ tt'.entries[SavedSlot].generation = tt.generation

\* C15: a save overwrites the slot at key & (capacity - 1) if and only if
\* the slot is empty (its key is 0), or the new depth is >= the stored depth,
\* or the stored generation differs from the table's; in every other case
\* the slot is unchanged; no other slot and not the generation are touched.
SaveReplacementRule ==
    [][watch'.op = "save" =>
         /\ \A i \in 0..(TTSlots - 1) : i # SavedSlot => tt'.entries[i] = tt.entries[i]
         /\ tt'.generation = tt.generation
         /\ IF \/ tt.entries[SavedSlot].key = 0
               \/ watch'.depth >= tt.entries[SavedSlot].depth
               \/ tt.entries[SavedSlot].generation # tt.generation
            THEN SavedEntryWritten
            ELSE tt'.entries[SavedSlot] = tt.entries[SavedSlot]]_vars

\* A slot written at depth 2 and then again under each case: refused at
\* depth 1 in the same generation, replaced at depth 1 in the next one.
SaveReplacementRuleWitness ==
    /\ watch.op = "save"
    /\ tt.generation = 1
    /\ \E i, j \in 0..(TTSlots - 1) :
          /\ tt.entries[i].depth = 2 /\ tt.entries[i].generation = 0 /\ tt.entries[i].key # 0
          /\ tt.entries[j].depth = 1 /\ tt.entries[j].generation = 1
    /\ nodes = MaxTTOps

\* ---------------------------------------------------------------- C16

\* C16: probe(key, ...) returns the best move, score, depth and bound stored
\* in the slot of key when the stored key equals key, and None otherwise; the
\* score is the stored one, and no other depth, alpha, beta or ply argument
\* changes the result.
ProbeReturnsStored ==
    watch.op = "probe" =>
        LET entry == tt.entries[watch.key % TTSlots]
        IN /\ ret = IF entry.key = watch.key
                    THEN <<entry.best_move, entry.score, entry.depth, entry.bound>>
                    ELSE <<>>
           /\ \A args \in TTProbeArgs : probe(tt, watch.key, args[1], args[2], args[3], args[4]) = ret

\* A hit that returns the move, the clamped score, the depth and the bound of
\* a save, next to a slot that holds another key than the one it is probed by.
ProbeReturnsStoredWitness ==
    /\ watch.op = "probe"
    /\ ret # <<>> /\ ret[1] # NONE /\ ret[2] = 32000 /\ ret[3] = 2 /\ ret[4] = LowerBound
    /\ \E key \in TTKeys :
          /\ tt.entries[key % TTSlots].key \notin {0, key}
          /\ probe(tt, key, 1, -7, 40000, 0) = <<>>

\* ---------------------------------------------------------------- C17

\* C17: when a save replaces a slot and brings no move, the best move the
\* slot had stays; when it brings a move, that move is stored.
SaveKeepsBestMove ==
    [][(watch'.op = "save"
          /\ replaces(tt.entries[SavedSlot], watch'.depth, tt.generation)) =>
         tt'.entries[SavedSlot].best_move =
            IF watch'.mv = NONE THEN tt.entries[SavedSlot].best_move ELSE watch'.mv]_vars

\* A replacing save without a move has left the move of the save before it.
SaveKeepsBestMoveWitness ==
    /\ watch.op = "save"
    /\ watch.mv = NONE
    /\ tt.entries[watch.key % TTSlots].key = watch.key
    /\ tt.entries[watch.key % TTSlots].best_move # NONE

\* ---------------------------------------------------------------- C18

StoredScore == tt.entries[ScoreKey % TTSlots].score

IsMateScore(score) == Abs(score) >= MATE_THRESHOLD

\* The plies between the node that found the mate score and the mate.
MateDistance(score, ply) == MATE_SCORE - Abs(score) - ply

Signed(score, magnitude) == IF score < 0 THEN -magnitude ELSE magnitude

\* C18: a mate score found at ply p for a mate k plies below the node,
\* magnitude MATE_SCORE - (p + k), is stored as magnitude MATE_SCORE - k and
\* read back at any ply q as magnitude MATE_SCORE - (q + k) with the same
\* sign; a score of absolute value below MATE_THRESHOLD is stored and read
\* back unchanged.
MateScoreRoundTrip ==
    watch.op \in {"stored", "read"} =>
        IF IsMateScore(watch.score)
        THEN /\ StoredScore =
                  Signed(watch.score, MATE_SCORE - MateDistance(watch.score, watch.ply))
             /\ watch.op = "read" =>
                  ret = <<Signed(watch.score,
                                 MATE_SCORE - (watch.at + MateDistance(watch.score, watch.ply)))>>
        ELSE /\ StoredScore = watch.score
             /\ watch.op = "read" => ret = <<watch.score>>

\* A mated-in score found two plies deep is read four plies deep.
MateScoreRoundTripWitness ==
    /\ watch.op = "read"
    /\ watch.score = -(MATE_SCORE - 5)
    /\ watch.ply = 2
    /\ watch.at = 4
    /\ StoredScore = -(MATE_SCORE - 3)
    /\ ret = <<-(MATE_SCORE - 7)>>

\* ---------------------------------------------------------------- C19

\* C19: for the same position, depth and window, the search that starts on a
\* table with entries returns the score of the search that starts on a new
\* table.
SameScoreOnWarmTable ==
    srch.phase = "compared" => srch.warm[1].score = srch.fresh[1].score

\* ---------------------------------------------------------------- C20

\* C20: the table search works on is the caller's: when a search call has
\* returned, the entries it wrote are in the caller's table, where a later
\* search on the same table finds them.
SearchWritesCallersTable ==
    srch.phase = "done" => window.table = tt

\* ---------------------------------------------------------------- C27

AlphaBetaDepthNonNegative ==
    \A i \in 1..Len(stack) :
        ~IsQ(stack[i]) => stack[i].depth >= 0 /\ depth_u8(stack[i].depth) = stack[i].depth

\* ---------------------------------------------------------------- C28

\* C28: when the root call of an iteration returns, search either ends the
\* iteration (stop signal, or score inside the window) or searches the root
\* again at the same depth after widening exactly the bound that failed, and
\* that bound was not yet widened: alpha to -INF on a fail-low, beta to INF on
\* a fail-high.  An iteration so runs at most three root searches.
AspirationWidensOnce ==
    [][(srch.phase = "root" /\ stack = <<>>) =>
         /\ watch'.roots <= 3
         /\ srch'.phase = "root" =>
               /\ ~time.stop_signal
               /\ srch'.depth = srch.depth
               /\ watch'.roots = watch.roots + 1
               /\ IF ret.score <= srch.alpha
                  THEN srch.alpha > -INF /\ srch'.alpha = -INF /\ srch'.beta = srch.beta
                  ELSE /\ ret.score >= srch.beta
                       /\ srch.beta < INF /\ srch'.beta = INF /\ srch'.alpha = srch.alpha
         /\ srch'.phase # "root" =>
               time.stop_signal \/ (ret.score > srch.alpha /\ ret.score < srch.beta)]_vars

\* An iteration that failed high, was searched again with beta at INF and
\* closed inside the widened window.
AspirationWidensOnceWitness ==
    /\ srch.phase = "head"
    /\ srch.depth > 5
    /\ watch.roots = 2
    /\ srch.alpha > -INF
    /\ srch.beta = INF
    /\ watch.completed # <<>>
    /\ watch.completed[1].score >= srch.alpha + 2 * ASPIRATION_WINDOW

\* ---------------------------------------------------------------- C29

\* The step in which the move of the top frame causes a beta cutoff: the frame
\* returns with that move.
IsBetaCutoff ==
    /\ At({"ab_after_first", "ab_after_reduced", "ab_after_research", "ab_after_full"})
    /\ Len(stack') = Len(stack) - 1
    /\ ret'.mv = Top.mv
    /\ ret'.mv # NONE

\* C29: when a move that is no capture causes a beta cutoff at a node of
\* remaining depth d, its history entry grows by d * d, and it becomes the
\* first killer of the ply with the former first killer second, unless it is
\* the first killer already.
CutoffHistoryBonus ==
    [][(IsBetaCutoff /\ ~move_is_capture(Top.mv)) =>
         /\ ctx'.history[Top.mv] = ctx.history[Top.mv] + Top.depth * Top.depth
         /\ ctx'.killer_moves[Top.ply] =
               IF ctx.killer_moves[Top.ply][1] = Top.mv
               THEN ctx.killer_moves[Top.ply]
               ELSE <<Top.mv, ctx.killer_moves[Top.ply][1]>>]_vars

\* ---------------------------------------------------------------- C30

\* The result of lines 505-511 for the node of frame f.
TerminalResult(f) ==
    [score |-> IF InCheck(srch.tree, f.pos) THEN -MATE_SCORE + f.ply ELSE 0, mv |-> NONE]

\* The top frame returns to its caller in this step.
TopReturns == Len(stack') = Len(stack) - 1

SearchReturnsSomeMove ==
    (srch.phase = "done" /\ LegalMoves(srch.tree, <<>>) # {}) => search_result(srch).mv # NONE

\* ---------------------------------------------------------------- C26

\* C26: a node that reads or updates the killer table does so at an index
\* below the table's length, for the depths the UCI layer requests.
KillerIndexInBounds ==
    (srch.phase = "line" /\ reaches_move_loop(srch)) => srch.ply < KILLER_PLIES

\* ---------------------------------------------------------------- C22

MyTime == IF srch.side_to_move = White THEN srch.go.wtime ELSE srch.go.btime

AllottedFromClock == srch.phase = "search" /\ srch.go.movetime = <<>> /\ MyTime # <<>>

\* C22: the time allotted from the clock is at most a fifth of the remaining
\* time, and at most what is left of it after the safety buffer of
\* min(15% of the remaining time, 500 ms).
AllottedWithinFifth ==
    AllottedFromClock =>
        /\ srch.time_limit[1] * 5 <= MyTime[1]
        /\ srch.time_limit[1] <= MyTime[1] - Min((MyTime[1] * 15) \div 100, 500)

\* ---------------------------------------------------------------- C21

\* A move list has a string that is not the UCI text of a legal move of the
\* position reached by the strings before it.
RECURSIVE HasInvalidMove(_, _)
HasInvalidMove(b, strs) ==
    IF strs = <<>> THEN FALSE
    ELSE LET named == {mv \in generate_legal(b) : to_uci(mv) = Head(strs)}
         IN  IF named = {} THEN TRUE
             ELSE HasInvalidMove(make_move_basic(b, CHOOSE mv \in named : TRUE).board, Tail(strs))

InvalidPositionCommand ==
    watch.op = "position" /\ HasInvalidMove(ScenarioBoard(watch.cmd.fen), watch.cmd.moves)

\* C21: a position command with an invalid move in its list does not panic,
\* prints a diagnostic and leaves the engine's board as it was.
InvalidMoveRejected ==
    InvalidPositionCommand =>
        /\ srch.phase # "panicked"
        /\ watch.diagnostic # <<>>
        /\ board = watch.before

\* ---------------------------------------------------------------- C24

\* C24: every undo inside search is the undo of the newest make not yet
\* undone and gives back the board before that make, and when search has
\* returned, stopped or not, no make is left and the board is the board
\* before the call in every field.
MakeUndoLifo ==
    /\ last.op = "undo" => last.newest /\ last.pre = <<board>>
    /\ srch.phase = "returned" => trail = <<>> /\ board = watch.before

MakeUndoLifoWitness ==
    /\ srch.phase = "returned"
    /\ time.stop_signal
    /\ watch.null_made
    /\ watch.deepest = MaxLifoPly
    /\ last.op = "undo"

====
